---- MODULE Spec2Model ----
(***************************************************************************)
(* A model of phpreport-report's temporal-range resolution: the calendar   *)
(* arithmetic and the range grammar of dateutils.py (DateUtils).           *)
(*                                                                         *)
(* A date is a record [year, month, day] (a datetime.datetime at 00:00);   *)
(* an exception is a record [exc |-> <class name>].  Strings are sequences *)
(* of one-character strings.                                               *)
(***************************************************************************)
EXTENDS Integers, Sequences, FiniteSets, TLC

VARIABLES pc, arg, res, prev, heap, instances, period

vars == <<pc, arg, res, prev, heap, instances, period>>

\* The objects of phpreport.py and report_creator.py: the calls of DateUtils
\* leave them alone.
objects == <<heap, instances, period>>

(***************************************************************************)
(* Bounds of the model.                                                    *)
(***************************************************************************)
\* The calendar specifications range over the years FirstYear .. FirstYear + NumYears - 1.
FirstYear == 1895
NumYears == 112
\* Week numbers handed to from_week_number: 0 .. MaxWeek (53 is the last accepted).
MaxWeek == 55

\* The tokens' years: FirstTokenYear .. FirstTokenYear + NumTokenYears - 1, and a
\* few fixed ones; day and month numbers written in tokens: 0 .. MaxDayNum and
\* 0 .. MaxMonthNum; quarter and half numbers: 0 .. MaxQuarterNum, 0 .. MaxHalfNum.
FirstTokenYear == 2015
NumTokenYears == 6
MaxDayNum == 32
MaxMonthNum == 13
MaxQuarterNum == 5
MaxHalfNum == 3

Years == FirstYear .. (FirstYear + NumYears - 1)

None == [exc |-> "None"]

(***************************************************************************)
(* Exceptions.                                                             *)
(***************************************************************************)
ValueError == [exc |-> "ValueError"]
OverflowError == [exc |-> "OverflowError"]

IsExc(x) == "exc" \in DOMAIN x

\* PHPReportObject.instances = defaultdict(dict): no class has an instance yet.
Classes == {"User", "Customer", "Project", "Task"}

NoInstances == [cls \in Classes |-> <<>>]

\* No object has been constructed: the state in which dateutils.py is used on
\* its own.
NoObjects ==
    /\ heap = <<>>
    /\ instances = NoInstances
    /\ period = None

(***************************************************************************)
(* The standard library's proleptic Gregorian calendar (datetime,          *)
(* calendar), as dateutils.py uses it.                                     *)
(***************************************************************************)
MINYEAR == 1
MAXYEAR == 9999

\* A variant of isleap without the century rule.
isleap_every_fourth_year(year) == year % 4 = 0

isleap(year) == year % 4 = 0 /\ (year % 100 # 0 \/ year % 400 = 0)

mdays == <<31, 28, 31, 30, 31, 30, 31, 31, 30, 31, 30, 31>>

\* calendar.monthrange raises IllegalMonthError, a ValueError, for these months.
illegal_month(month) == month < 1 \/ month > 12

\* calendar.monthrange(year, month)[1], of a legal month
monthrange_ndays(year, month) ==
    mdays[month] + (IF month = 2 /\ isleap(year) THEN 1 ELSE 0)

days_in_month(year, month) ==
    mdays[month] + (IF month = 2 /\ isleap(year) THEN 1 ELSE 0)

days_before_year(year) ==
    LET y == year - 1 IN y * 365 + (y \div 4) - (y \div 100) + (y \div 400)

RECURSIVE days_before_month(_, _)
days_before_month(year, month) ==
    IF month = 1 THEN 0
    ELSE days_before_month(year, month - 1) + days_in_month(year, month - 1)

\* datetime.datetime(year, month, day): the constructor checks its fields.
datetime(year, month, day) ==
    IF year < MINYEAR \/ year > MAXYEAR THEN ValueError
    ELSE IF month < 1 \/ month > 12 THEN ValueError
    ELSE IF day < 1 \/ day > days_in_month(year, month) THEN ValueError
    ELSE [year |-> year, month |-> month, day |-> day]

toordinal(date) ==
    days_before_year(date.year) + days_before_month(date.year, date.month) + date.day

MaxOrdinal == days_before_year(MAXYEAR + 1)

\* datetime._ord2ymd
ord2ymd(ordinal) ==
    LET n0 == ordinal - 1
        n400 == n0 \div 146097
        r400 == n0 % 146097
        n100 == r400 \div 36524
        r100 == r400 % 36524
        n4 == r100 \div 1461
        r4 == r100 % 1461
        n1 == r4 \div 365
        n == r4 % 365
        year == n400 * 400 + 1 + n100 * 100 + n4 * 4 + n1
        leapyear == n1 = 3 /\ (n4 # 24 \/ n100 = 3)
        month0 == (n + 50) \div 32
        preceding0 == days_before_month(IF leapyear THEN 4 ELSE 1, month0)
        month == IF preceding0 > n THEN month0 - 1 ELSE month0
        preceding == days_before_month(IF leapyear THEN 4 ELSE 1, month)
    IN  IF n1 = 4 \/ n100 = 4
        THEN [year |-> year - 1, month |-> 12, day |-> 31]
        ELSE [year |-> year, month |-> month, day |-> n - preceding + 1]

\* date.fromordinal: out of range is a ValueError.
fromordinal(ordinal) ==
    IF ordinal < 1 \/ ordinal > MaxOrdinal THEN ValueError ELSE ord2ymd(ordinal)

\* date + timedelta(days): out of range is an OverflowError.  The sum has the
\* type of the date: a datetime.date stays one, a datetime keeps its time.
date_add(date, days) ==
    LET o == toordinal(date) + days
    IN  IF o < 1 \/ o > MaxOrdinal THEN OverflowError
        ELSE [field \in DOMAIN date |->
                 IF field \in {"year", "month", "day"} THEN ord2ymd(o)[field]
                 ELSE date[field]]

\* date.weekday(): Monday is 0.
weekday(date) == (toordinal(date) + 6) % 7

\* date.isoweekday(): Monday is 1, Sunday is 7.
isoweekday(date) == LET r == toordinal(date) % 7 IN IF r = 0 THEN 7 ELSE r

\* datetime comparison, on (year, month, day).
date_lt(a, b) ==
    \/ a.year < b.year
    \/ a.year = b.year /\ a.month < b.month
    \/ a.year = b.year /\ a.month = b.month /\ a.day < b.day

date_le(a, b) == a = b \/ date_lt(a, b)

\* datetime._isoweek1monday
isoweek1monday(year) ==
    LET firstday == toordinal([year |-> year, month |-> 1, day |-> 1])
        firstweekday == (firstday + 6) % 7
        week1monday == firstday - firstweekday
    IN  IF firstweekday > 3 THEN week1monday + 7 ELSE week1monday

\* date.isocalendar()[:2]
isocalendar(date) ==
    LET year == date.year
        today == toordinal(date)
        w1 == isoweek1monday(year)
        week == (today - w1) \div 7
    IN  IF today < w1
        THEN <<year - 1, ((today - isoweek1monday(year - 1)) \div 7) + 1>>
        ELSE IF week >= 52 /\ today >= isoweek1monday(year + 1)
        THEN <<year + 1, 1>>
        ELSE <<year, week + 1>>

\* _strptime._calc_julian_from_U_or_W with week_starts_Mon
calc_julian_from_W(year, week_of_year, day_of_week) ==
    LET first_weekday == weekday([year |-> year, month |-> 1, day |-> 1])
        week_0_length == (7 - first_weekday) % 7
    IN  IF week_of_year = 0
        THEN 1 + day_of_week - first_weekday
        ELSE 1 + week_0_length + 7 * (week_of_year - 1) + day_of_week

\* datetime.datetime.strptime("%i %i %i" % (year, week, w), "%Y %W %w").date():
\* %Y takes exactly four digits, %W 0..53, %w 0..6 (0 is Sunday).
strptime_YWw(year, week, w) ==
    IF year < 1000 \/ year > 9999 \/ week < 0 \/ week > 53 \/ w < 0 \/ w > 6
    THEN ValueError
    ELSE LET day_of_week == IF w = 0 THEN 6 ELSE w - 1
             julian0 == calc_julian_from_W(year, week, day_of_week)
             y == IF julian0 <= 0 THEN year - 1 ELSE year
             julian == IF julian0 <= 0
                       THEN julian0 + (IF isleap(y) THEN 366 ELSE 365)
                       ELSE julian0
         IN  fromordinal((julian - 1) + toordinal([year |-> y, month |-> 1, day |-> 1]))

(***************************************************************************)
(* DateUtils: calendar arithmetic (dateutils.py).                          *)
(***************************************************************************)
last_day_of_month(year, month) == monthrange_ndays(year, month)

\* A variant of week_out_of_range that lets week 0 through.
week_out_of_range_but_zero(week) == week < 0 \/ week > 53

\* "if week <= 0 or week > 53: raise ValueError"
week_out_of_range(week) == week <= 0 \/ week > 53

\* A variant of needs_iso_shift that also shifts when January 4th is a Thursday.
needs_iso_shift_from_thursday(year) ==
    isoweekday([year |-> year, month |-> 1, day |-> 4]) >= 4

\* "if datetime.date(year, 1, 4).isoweekday() > 4": strptime's week 1 starts at
\* the year's first Monday, ISO's week 1 is the week of January 4th.
needs_iso_shift(year) == isoweekday([year |-> year, month |-> 1, day |-> 4]) > 4

\* A variant of end_of_week that lands on the next Monday.
end_of_week_plus_seven(date) == date_add(date, 7)

\* "if end: date += datetime.timedelta(days=6)"
end_of_week(date) == date_add(date, 6)

\* "if datetime.date(year, 1, 4).isoweekday() > 4: date -= datetime.timedelta(days=7)",
\* reached when strptime raised nothing
iso_shifted(year, date) ==
    IF IsExc(date) THEN date
    ELSE IF needs_iso_shift(year) THEN date_add(date, -7)
    ELSE date

\* "if end: date += datetime.timedelta(days=6)", reached when nothing was raised
start_or_end(end, date) ==
    IF IsExc(date) THEN date
    ELSE IF end THEN end_of_week(date)
    ELSE date

from_week_number(year, week, end) ==
    IF week_out_of_range(week) THEN ValueError
    ELSE start_or_end(end, iso_shifted(year, strptime_YWw(year, week, 1)))

from_date_offset(date, day_offset) == date_add(date, day_offset)

\* A variant of year_and_week_number that pairs the ISO week with the calendar year.
year_and_week_number_calendar_year(date) == <<date.year, isocalendar(date)[2]>>

year_and_week_number(date) == isocalendar(date)

monday(date) ==
    LET yw == year_and_week_number(date) IN from_week_number(yw[1], yw[2], FALSE)

\* A variant of from_quarter_number whose end month is one month late.
from_quarter_number_late_end(year, quarter, end) ==
    IF end
    THEN LET month == quarter * 3 + 1
         IN  IF illegal_month(month) THEN ValueError
             ELSE datetime(year, month, last_day_of_month(year, month))
    ELSE datetime(year, (quarter - 1) * 3 + 1, 1)

from_quarter_number(year, quarter, end) ==
    IF end
    THEN LET month == quarter * 3
         IN  IF illegal_month(month) THEN ValueError
             ELSE datetime(year, month, last_day_of_month(year, month))
    ELSE datetime(year, (quarter - 1) * 3 + 1, 1)

from_half_number(year, half, end) ==
    IF end
    THEN LET month == half * 6
         IN  IF illegal_month(month) THEN ValueError
             ELSE datetime(year, month, last_day_of_month(year, month))
    ELSE datetime(year, (half - 1) * 6 + 1, 1)

from_year(year, end) ==
    IF end
    THEN datetime(year, 12, last_day_of_month(year, 12))
    ELSE datetime(year, 1, 1)

(***************************************************************************)
(* Strings and the regular expressions of dateutils.py.  A match is the    *)
(* sequence of its groups (an unmatched optional group is empty); no match *)
(* is the empty sequence.                                                  *)
(***************************************************************************)
DigitChars == <<"0", "1", "2", "3", "4", "5", "6", "7", "8", "9">>

\* A character of a text is a string: the character itself when it is ASCII
\* other than the grave accent, and the name of its code point ("U+0662",
\* "U+0060") otherwise.  \d of a str pattern
\* matches every decimal digit of Unicode (category Nd, Unicode 14 in
\* Python 3.11), and int() reads them: each row is the digits 0 to 9 of one
\* script.
UnicodeDigits ==
    <<DigitChars,
     <<"U+0660", "U+0661", "U+0662", "U+0663", "U+0664",
       "U+0665", "U+0666", "U+0667", "U+0668", "U+0669">>,
     <<"U+06F0", "U+06F1", "U+06F2", "U+06F3", "U+06F4",
       "U+06F5", "U+06F6", "U+06F7", "U+06F8", "U+06F9">>,
     <<"U+07C0", "U+07C1", "U+07C2", "U+07C3", "U+07C4",
       "U+07C5", "U+07C6", "U+07C7", "U+07C8", "U+07C9">>,
     <<"U+0966", "U+0967", "U+0968", "U+0969", "U+096A",
       "U+096B", "U+096C", "U+096D", "U+096E", "U+096F">>,
     <<"U+09E6", "U+09E7", "U+09E8", "U+09E9", "U+09EA",
       "U+09EB", "U+09EC", "U+09ED", "U+09EE", "U+09EF">>,
     <<"U+0A66", "U+0A67", "U+0A68", "U+0A69", "U+0A6A",
       "U+0A6B", "U+0A6C", "U+0A6D", "U+0A6E", "U+0A6F">>,
     <<"U+0AE6", "U+0AE7", "U+0AE8", "U+0AE9", "U+0AEA",
       "U+0AEB", "U+0AEC", "U+0AED", "U+0AEE", "U+0AEF">>,
     <<"U+0B66", "U+0B67", "U+0B68", "U+0B69", "U+0B6A",
       "U+0B6B", "U+0B6C", "U+0B6D", "U+0B6E", "U+0B6F">>,
     <<"U+0BE6", "U+0BE7", "U+0BE8", "U+0BE9", "U+0BEA",
       "U+0BEB", "U+0BEC", "U+0BED", "U+0BEE", "U+0BEF">>,
     <<"U+0C66", "U+0C67", "U+0C68", "U+0C69", "U+0C6A",
       "U+0C6B", "U+0C6C", "U+0C6D", "U+0C6E", "U+0C6F">>,
     <<"U+0CE6", "U+0CE7", "U+0CE8", "U+0CE9", "U+0CEA",
       "U+0CEB", "U+0CEC", "U+0CED", "U+0CEE", "U+0CEF">>,
     <<"U+0D66", "U+0D67", "U+0D68", "U+0D69", "U+0D6A",
       "U+0D6B", "U+0D6C", "U+0D6D", "U+0D6E", "U+0D6F">>,
     <<"U+0DE6", "U+0DE7", "U+0DE8", "U+0DE9", "U+0DEA",
       "U+0DEB", "U+0DEC", "U+0DED", "U+0DEE", "U+0DEF">>,
     <<"U+0E50", "U+0E51", "U+0E52", "U+0E53", "U+0E54",
       "U+0E55", "U+0E56", "U+0E57", "U+0E58", "U+0E59">>,
     <<"U+0ED0", "U+0ED1", "U+0ED2", "U+0ED3", "U+0ED4",
       "U+0ED5", "U+0ED6", "U+0ED7", "U+0ED8", "U+0ED9">>,
     <<"U+0F20", "U+0F21", "U+0F22", "U+0F23", "U+0F24",
       "U+0F25", "U+0F26", "U+0F27", "U+0F28", "U+0F29">>,
     <<"U+1040", "U+1041", "U+1042", "U+1043", "U+1044",
       "U+1045", "U+1046", "U+1047", "U+1048", "U+1049">>,
     <<"U+1090", "U+1091", "U+1092", "U+1093", "U+1094",
       "U+1095", "U+1096", "U+1097", "U+1098", "U+1099">>,
     <<"U+17E0", "U+17E1", "U+17E2", "U+17E3", "U+17E4",
       "U+17E5", "U+17E6", "U+17E7", "U+17E8", "U+17E9">>,
     <<"U+1810", "U+1811", "U+1812", "U+1813", "U+1814",
       "U+1815", "U+1816", "U+1817", "U+1818", "U+1819">>,
     <<"U+1946", "U+1947", "U+1948", "U+1949", "U+194A",
       "U+194B", "U+194C", "U+194D", "U+194E", "U+194F">>,
     <<"U+19D0", "U+19D1", "U+19D2", "U+19D3", "U+19D4",
       "U+19D5", "U+19D6", "U+19D7", "U+19D8", "U+19D9">>,
     <<"U+1A80", "U+1A81", "U+1A82", "U+1A83", "U+1A84",
       "U+1A85", "U+1A86", "U+1A87", "U+1A88", "U+1A89">>,
     <<"U+1A90", "U+1A91", "U+1A92", "U+1A93", "U+1A94",
       "U+1A95", "U+1A96", "U+1A97", "U+1A98", "U+1A99">>,
     <<"U+1B50", "U+1B51", "U+1B52", "U+1B53", "U+1B54",
       "U+1B55", "U+1B56", "U+1B57", "U+1B58", "U+1B59">>,
     <<"U+1BB0", "U+1BB1", "U+1BB2", "U+1BB3", "U+1BB4",
       "U+1BB5", "U+1BB6", "U+1BB7", "U+1BB8", "U+1BB9">>,
     <<"U+1C40", "U+1C41", "U+1C42", "U+1C43", "U+1C44",
       "U+1C45", "U+1C46", "U+1C47", "U+1C48", "U+1C49">>,
     <<"U+1C50", "U+1C51", "U+1C52", "U+1C53", "U+1C54",
       "U+1C55", "U+1C56", "U+1C57", "U+1C58", "U+1C59">>,
     <<"U+A620", "U+A621", "U+A622", "U+A623", "U+A624",
       "U+A625", "U+A626", "U+A627", "U+A628", "U+A629">>,
     <<"U+A8D0", "U+A8D1", "U+A8D2", "U+A8D3", "U+A8D4",
       "U+A8D5", "U+A8D6", "U+A8D7", "U+A8D8", "U+A8D9">>,
     <<"U+A900", "U+A901", "U+A902", "U+A903", "U+A904",
       "U+A905", "U+A906", "U+A907", "U+A908", "U+A909">>,
     <<"U+A9D0", "U+A9D1", "U+A9D2", "U+A9D3", "U+A9D4",
       "U+A9D5", "U+A9D6", "U+A9D7", "U+A9D8", "U+A9D9">>,
     <<"U+A9F0", "U+A9F1", "U+A9F2", "U+A9F3", "U+A9F4",
       "U+A9F5", "U+A9F6", "U+A9F7", "U+A9F8", "U+A9F9">>,
     <<"U+AA50", "U+AA51", "U+AA52", "U+AA53", "U+AA54",
       "U+AA55", "U+AA56", "U+AA57", "U+AA58", "U+AA59">>,
     <<"U+ABF0", "U+ABF1", "U+ABF2", "U+ABF3", "U+ABF4",
       "U+ABF5", "U+ABF6", "U+ABF7", "U+ABF8", "U+ABF9">>,
     <<"U+FF10", "U+FF11", "U+FF12", "U+FF13", "U+FF14",
       "U+FF15", "U+FF16", "U+FF17", "U+FF18", "U+FF19">>,
     <<"U+104A0", "U+104A1", "U+104A2", "U+104A3", "U+104A4",
       "U+104A5", "U+104A6", "U+104A7", "U+104A8", "U+104A9">>,
     <<"U+10D30", "U+10D31", "U+10D32", "U+10D33", "U+10D34",
       "U+10D35", "U+10D36", "U+10D37", "U+10D38", "U+10D39">>,
     <<"U+11066", "U+11067", "U+11068", "U+11069", "U+1106A",
       "U+1106B", "U+1106C", "U+1106D", "U+1106E", "U+1106F">>,
     <<"U+110F0", "U+110F1", "U+110F2", "U+110F3", "U+110F4",
       "U+110F5", "U+110F6", "U+110F7", "U+110F8", "U+110F9">>,
     <<"U+11136", "U+11137", "U+11138", "U+11139", "U+1113A",
       "U+1113B", "U+1113C", "U+1113D", "U+1113E", "U+1113F">>,
     <<"U+111D0", "U+111D1", "U+111D2", "U+111D3", "U+111D4",
       "U+111D5", "U+111D6", "U+111D7", "U+111D8", "U+111D9">>,
     <<"U+112F0", "U+112F1", "U+112F2", "U+112F3", "U+112F4",
       "U+112F5", "U+112F6", "U+112F7", "U+112F8", "U+112F9">>,
     <<"U+11450", "U+11451", "U+11452", "U+11453", "U+11454",
       "U+11455", "U+11456", "U+11457", "U+11458", "U+11459">>,
     <<"U+114D0", "U+114D1", "U+114D2", "U+114D3", "U+114D4",
       "U+114D5", "U+114D6", "U+114D7", "U+114D8", "U+114D9">>,
     <<"U+11650", "U+11651", "U+11652", "U+11653", "U+11654",
       "U+11655", "U+11656", "U+11657", "U+11658", "U+11659">>,
     <<"U+116C0", "U+116C1", "U+116C2", "U+116C3", "U+116C4",
       "U+116C5", "U+116C6", "U+116C7", "U+116C8", "U+116C9">>,
     <<"U+11730", "U+11731", "U+11732", "U+11733", "U+11734",
       "U+11735", "U+11736", "U+11737", "U+11738", "U+11739">>,
     <<"U+118E0", "U+118E1", "U+118E2", "U+118E3", "U+118E4",
       "U+118E5", "U+118E6", "U+118E7", "U+118E8", "U+118E9">>,
     <<"U+11950", "U+11951", "U+11952", "U+11953", "U+11954",
       "U+11955", "U+11956", "U+11957", "U+11958", "U+11959">>,
     <<"U+11C50", "U+11C51", "U+11C52", "U+11C53", "U+11C54",
       "U+11C55", "U+11C56", "U+11C57", "U+11C58", "U+11C59">>,
     <<"U+11D50", "U+11D51", "U+11D52", "U+11D53", "U+11D54",
       "U+11D55", "U+11D56", "U+11D57", "U+11D58", "U+11D59">>,
     <<"U+11DA0", "U+11DA1", "U+11DA2", "U+11DA3", "U+11DA4",
       "U+11DA5", "U+11DA6", "U+11DA7", "U+11DA8", "U+11DA9">>,
     <<"U+16A60", "U+16A61", "U+16A62", "U+16A63", "U+16A64",
       "U+16A65", "U+16A66", "U+16A67", "U+16A68", "U+16A69">>,
     <<"U+16AC0", "U+16AC1", "U+16AC2", "U+16AC3", "U+16AC4",
       "U+16AC5", "U+16AC6", "U+16AC7", "U+16AC8", "U+16AC9">>,
     <<"U+16B50", "U+16B51", "U+16B52", "U+16B53", "U+16B54",
       "U+16B55", "U+16B56", "U+16B57", "U+16B58", "U+16B59">>,
     <<"U+1D7CE", "U+1D7CF", "U+1D7D0", "U+1D7D1", "U+1D7D2",
       "U+1D7D3", "U+1D7D4", "U+1D7D5", "U+1D7D6", "U+1D7D7">>,
     <<"U+1D7D8", "U+1D7D9", "U+1D7DA", "U+1D7DB", "U+1D7DC",
       "U+1D7DD", "U+1D7DE", "U+1D7DF", "U+1D7E0", "U+1D7E1">>,
     <<"U+1D7E2", "U+1D7E3", "U+1D7E4", "U+1D7E5", "U+1D7E6",
       "U+1D7E7", "U+1D7E8", "U+1D7E9", "U+1D7EA", "U+1D7EB">>,
     <<"U+1D7EC", "U+1D7ED", "U+1D7EE", "U+1D7EF", "U+1D7F0",
       "U+1D7F1", "U+1D7F2", "U+1D7F3", "U+1D7F4", "U+1D7F5">>,
     <<"U+1D7F6", "U+1D7F7", "U+1D7F8", "U+1D7F9", "U+1D7FA",
       "U+1D7FB", "U+1D7FC", "U+1D7FD", "U+1D7FE", "U+1D7FF">>,
     <<"U+1E140", "U+1E141", "U+1E142", "U+1E143", "U+1E144",
       "U+1E145", "U+1E146", "U+1E147", "U+1E148", "U+1E149">>,
     <<"U+1E2F0", "U+1E2F1", "U+1E2F2", "U+1E2F3", "U+1E2F4",
       "U+1E2F5", "U+1E2F6", "U+1E2F7", "U+1E2F8", "U+1E2F9">>,
     <<"U+1E950", "U+1E951", "U+1E952", "U+1E953", "U+1E954",
       "U+1E955", "U+1E956", "U+1E957", "U+1E958", "U+1E959">>,
     <<"U+1FBF0", "U+1FBF1", "U+1FBF2", "U+1FBF3", "U+1FBF4",
       "U+1FBF5", "U+1FBF6", "U+1FBF7", "U+1FBF8", "U+1FBF9">>>>

UnicodeDigitSet ==
    {UnicodeDigits[row][i] : row \in 1 .. Len(UnicodeDigits), i \in 1 .. 10}

IsDigit(c) == c \in UnicodeDigitSet

digit_value(c) ==
    (CHOOSE i \in 1 .. 10 :
         \E row \in 1 .. Len(UnicodeDigits) : UnicodeDigits[row][i] = c) - 1

\* s[i..j] exists and is made of digits (\d ... \d)
IsDigits(s, i, j) == j <= Len(s) /\ \A k \in i .. j : IsDigit(s[k])

\* "$": at the end of the string, or just before a newline that ends it
AtEnd(s, i) == i = Len(s) + 1 \/ (i = Len(s) /\ s[i] = "\n")

CharAt(s, i, chars) == i <= Len(s) /\ s[i] \in chars

NoMatch == <<>>

\* int(group): a ValueError unless the group is a decimal literal
is_int_literal(s) == Len(s) > 0 /\ IsDigits(s, 1, Len(s))

RECURSIVE int_value(_)
int_value(s) ==
    IF Len(s) = 0 THEN 0
    ELSE 10 * int_value(SubSeq(s, 1, Len(s) - 1)) + digit_value(s[Len(s)])

\* The ways \d\d? can match, greedy first.
OneOrTwo == <<2, 1>>

\* FULL_DATE_REGEX = ^(\d\d?)/(\d\d?)/(\d\d\d\d)   (no "$")
full_date_fits(s, a, b) ==
    /\ IsDigits(s, 1, a)
    /\ CharAt(s, a + 1, {"/"})
    /\ IsDigits(s, a + 2, a + 1 + b)
    /\ CharAt(s, a + b + 2, {"/"})
    /\ IsDigits(s, a + b + 3, a + b + 6)

FULL_DATE_REGEX(s) ==
    LET fits == {ab \in (1 .. 2) \X (1 .. 2) :
                    full_date_fits(s, OneOrTwo[ab[1]], OneOrTwo[ab[2]])}
    IN  IF fits = {} THEN NoMatch
        ELSE LET ab == CHOOSE x \in fits :
                           \A z \in fits : x[1] < z[1] \/ (x[1] = z[1] /\ x[2] <= z[2])
                 a == OneOrTwo[ab[1]]
                 b == OneOrTwo[ab[2]]
             IN  <<SubSeq(s, 1, a), SubSeq(s, a + 2, a + 1 + b),
                   SubSeq(s, a + b + 3, a + b + 6)>>

\* MONTH_REGEX = ^(\d\d?)/(\d\d\d\d)$
MONTH_REGEX(s) ==
    LET fits == {i \in 1 .. 2 :
                    LET a == OneOrTwo[i]
                    IN  /\ IsDigits(s, 1, a)
                        /\ CharAt(s, a + 1, {"/"})
                        /\ IsDigits(s, a + 2, a + 5)
                        /\ AtEnd(s, a + 6)}
    IN  IF fits = {} THEN NoMatch
        ELSE LET a == OneOrTwo[CHOOSE i \in fits : \A j \in fits : i <= j]
             IN  <<SubSeq(s, 1, a), SubSeq(s, a + 2, a + 5)>>

\* The ways (\d\d?) /? (\d\d\d\d)? can match, in the order the greedy matcher
\* tries them: <<digits, slash, year digits>>.
OptionalTail == <<<<2, 1, 4>>, <<2, 1, 0>>, <<2, 0, 4>>, <<2, 0, 0>>,
                  <<1, 1, 4>>, <<1, 1, 0>>, <<1, 0, 4>>, <<1, 0, 0>>>>

\* <letter> <a characters> [/] [yyyy] $ with the first field already checked
tail_fits(s, a, slash, year) ==
    /\ slash = 1 => CharAt(s, a + 2, {"/"})
    /\ year = 4 => IsDigits(s, a + 2 + slash, a + 5 + slash)
    /\ AtEnd(s, a + 2 + slash + year)

\* WEEK_REGEX = ^w(\d\d?)/?(\d\d\d\d)?$   (re.IGNORECASE)
WEEK_REGEX(s) ==
    LET fits == {i \in 1 .. 8 :
                    /\ CharAt(s, 1, {"w", "W"})
                    /\ IsDigits(s, 2, OptionalTail[i][1] + 1)
                    /\ tail_fits(s, OptionalTail[i][1], OptionalTail[i][2],
                                 OptionalTail[i][3])}
    IN  IF fits = {} THEN NoMatch
        ELSE LET t == OptionalTail[CHOOSE i \in fits : \A j \in fits : i <= j]
             IN  <<SubSeq(s, 2, t[1] + 1),
                   SubSeq(s, t[1] + 2 + t[2], t[1] + 1 + t[2] + t[3])>>

\* QUARTER_REGEX = ^q([1,2,3,4])/?(\d\d\d\d)?$   (re.IGNORECASE); the character
\* class holds the comma too.
QUARTER_REGEX(s) ==
    LET fits == {i \in 5 .. 8 :
                    /\ CharAt(s, 1, {"q", "Q"})
                    /\ CharAt(s, 2, {"1", ",", "2", "3", "4"})
                    /\ tail_fits(s, 1, OptionalTail[i][2], OptionalTail[i][3])}
    IN  IF fits = {} THEN NoMatch
        ELSE LET t == OptionalTail[CHOOSE i \in fits : \A j \in fits : i <= j]
             IN  <<SubSeq(s, 2, 2), SubSeq(s, 3 + t[2], 2 + t[2] + t[3])>>

\* HALF_REGEX = ^h([1,2])/(\d\d\d\d)$   (re.IGNORECASE)
HALF_REGEX(s) ==
    IF /\ CharAt(s, 1, {"h", "H"})
       /\ CharAt(s, 2, {"1", ",", "2"})
       /\ CharAt(s, 3, {"/"})
       /\ IsDigits(s, 4, 7)
       /\ AtEnd(s, 8)
    THEN <<SubSeq(s, 2, 2), SubSeq(s, 4, 7)>>
    ELSE NoMatch

\* YEAR_REGEX = ^(\d\d\d\d)$
YEAR_REGEX(s) ==
    IF IsDigits(s, 1, 4) /\ AtEnd(s, 5) THEN <<SubSeq(s, 1, 4)>> ELSE NoMatch

(***************************************************************************)
(* DateUtils.date_from_string: the first pattern that matches decides.  A  *)
(* result is [start, end]; the first exception raised on the way replaces  *)
(* it.                                                                     *)
(***************************************************************************)
\* [first, second], evaluated left to right
date_pair(first, second) ==
    IF IsExc(first) THEN first
    ELSE IF IsExc(second) THEN second
    ELSE [start |-> first, end |-> second]

\* int(match.group(2) or current_year)
year_or_current(group, current_year) ==
    IF group = <<>> THEN current_year ELSE int_value(group)

\* A variant of full_date_branch that reads the token month first (M/D/YYYY).
full_date_branch_month_first(match) ==
    LET date == datetime(int_value(match[3]), int_value(match[1]), int_value(match[2]))
    IN  date_pair(date, date)

full_date_branch(match) ==
    LET date == datetime(int_value(match[3]), int_value(match[2]), int_value(match[1]))
    IN  date_pair(date, date)

month_branch(match) ==
    LET month == int_value(match[1])
        year == int_value(match[2])
    IN  IF illegal_month(month) THEN ValueError
        ELSE date_pair(datetime(year, month, 1),
                       datetime(year, month, last_day_of_month(year, month)))

week_branch(match, current_year) ==
    LET week_number == int_value(match[1])
        year == year_or_current(match[2], current_year)
    IN  date_pair(from_week_number(year, week_number, FALSE),
                  from_week_number(year, week_number, TRUE))

quarter_branch(match, current_year) ==
    IF ~is_int_literal(match[1]) THEN ValueError
    ELSE LET quarter == int_value(match[1])
             year == year_or_current(match[2], current_year)
         IN  date_pair(from_quarter_number(year, quarter, FALSE),
                       from_quarter_number(year, quarter, TRUE))

half_branch(match, current_year) ==
    IF ~is_int_literal(match[1]) THEN ValueError
    ELSE LET half == int_value(match[1])
             year == year_or_current(match[2], current_year)
         IN  date_pair(from_half_number(year, half, FALSE),
                       from_half_number(year, half, TRUE))

year_branch(match) ==
    LET year == int_value(match[1])
    IN  date_pair(from_year(year, FALSE), from_year(year, TRUE))

date_from_string(string, current_year) ==
    IF FULL_DATE_REGEX(string) # NoMatch THEN full_date_branch(FULL_DATE_REGEX(string))
    ELSE IF MONTH_REGEX(string) # NoMatch THEN month_branch(MONTH_REGEX(string))
    ELSE IF WEEK_REGEX(string) # NoMatch
         THEN week_branch(WEEK_REGEX(string), current_year)
    ELSE IF QUARTER_REGEX(string) # NoMatch
         THEN quarter_branch(QUARTER_REGEX(string), current_year)
    ELSE IF HALF_REGEX(string) # NoMatch
         THEN half_branch(HALF_REGEX(string), current_year)
    ELSE IF YEAR_REGEX(string) # NoMatch THEN year_branch(YEAR_REGEX(string))
    ELSE ValueError

(***************************************************************************)
(* Calls of the calendar functions on inputs drawn in the initial state.   *)
(***************************************************************************)
WeekArgs == [kind : {"week"}, year : Years, week : 0 .. MaxWeek, month : {1}, day : {1}]

DateArgs ==
    {a \in [kind : {"date"}, year : Years, week : {0}, month : 1 .. 12, day : 1 .. 31] :
        a.day <= days_in_month(a.year, a.month)}

ArgDate == [year |-> arg.year, month |-> arg.month, day |-> arg.day]

InitCalendar ==
    /\ pc = "call"
    /\ arg \in WeekArgs \cup DateArgs
    /\ res = None
    /\ prev = None
    /\ NoObjects

\* from_week_number(year, week) and from_week_number(year, week, end=True)
FromWeekNumberCall ==
    /\ pc = "call"
    /\ arg.kind = "week"
    /\ res' = [start |-> from_week_number(arg.year, arg.week, FALSE),
               end |-> from_week_number(arg.year, arg.week, TRUE)]
    /\ pc' = "done"
    /\ UNCHANGED <<arg, prev>>
    /\ UNCHANGED objects

\* year_and_week_number(date), monday(date), monday(monday(date)) and the
\* Sunday from_week_number(*year_and_week_number(date), end=True)
MondayCall ==
    /\ pc = "call"
    /\ arg.kind = "date"
    /\ LET yw == year_and_week_number(ArgDate)
           mon == monday(ArgDate)
       IN  res' = [yw |-> yw,
                   start |-> mon,
                   end |-> from_week_number(yw[1], yw[2], TRUE),
                   again |-> IF IsExc(mon) THEN mon ELSE monday(mon)]
    /\ pc' = "done"
    /\ UNCHANGED <<arg, prev>>
    /\ UNCHANGED objects

NextCalendar == FromWeekNumberCall \/ MondayCall

SpecCalendar == InitCalendar /\ [][NextCalendar]_vars

(***************************************************************************)
(* DateUtils.date_range_from_string.                                       *)
(***************************************************************************)
\* "-" in string
contains_dash(s) == \E i \in 1 .. Len(s) : s[i] = "-"

\* string.split("-")
RECURSIVE split_dash(_)
split_dash(s) ==
    IF ~contains_dash(s) THEN <<s>>
    ELSE LET i == CHOOSE k \in 1 .. Len(s) :
                      s[k] = "-" /\ \A j \in 1 .. (k - 1) : s[j] # "-"
         IN  <<SubSeq(s, 1, i - 1)>> \o split_dash(SubSeq(s, i + 1, Len(s)))

\* The characters str.strip() removes and \s matches (str.isspace): the
\* ASCII whitespace, the vertical tab and the separators 0x1c to 0x1f, which
\* are written as they are, and the spaces of Unicode.
Whitespace ==
    {" ", "\t", "\n", "\r", "\f", "", "", "", "", "",
     "U+0085", "U+00A0", "U+1680", "U+2000", "U+2001", "U+2002", "U+2003",
     "U+2004", "U+2005", "U+2006", "U+2007", "U+2008", "U+2009", "U+200A",
     "U+2028", "U+2029", "U+202F", "U+205F", "U+3000"}

\* str.strip()
RECURSIVE strip(_)
strip(s) ==
    IF Len(s) = 0 THEN s
    ELSE IF s[1] \in Whitespace THEN strip(Tail(s))
    ELSE IF s[Len(s)] \in Whitespace THEN strip(SubSeq(s, 1, Len(s) - 1))
    ELSE s

\* A variant of sorted_dates that leaves the two dates as given.
sorted_dates_as_given(first, second) == [start |-> first, end |-> second]

\* dates.sort(), of a list of two dates
sorted_dates(first, second) ==
    IF date_lt(second, first)
    THEN [start |-> second, end |-> first]
    ELSE [start |-> first, end |-> second]

\* A variant of clause_dates that spans both clauses, whatever their order.
clause_dates_spanning(date1, date2) ==
    [start |-> IF date_lt(date2.start, date1.start) THEN date2.start ELSE date1.start,
     end |-> IF date_lt(date2.end, date1.end) THEN date1.end ELSE date2.end]

\* "dates = [date1[0], date2[1]]"
clause_dates(date1, date2) == [start |-> date1.start, end |-> date2.end]

\* The two clauses' dates, or the first exception raised parsing them.
clauses_or_raise(date1, date2) ==
    IF IsExc(date1) THEN date1
    ELSE IF IsExc(date2) THEN date2
    ELSE clause_dates(date1, date2)

\* "dates.sort(); return dates", reached when nothing was raised
sorted_or_raise(dates) ==
    IF IsExc(dates) THEN dates ELSE sorted_dates(dates.start, dates.end)

date_range_from_string(string, current_year) ==
    sorted_or_raise(
        IF contains_dash(string)
        THEN clauses_or_raise(
                 date_from_string(strip(split_dash(string)[1]), current_year),
                 date_from_string(strip(split_dash(string)[2]), current_year))
        ELSE date_from_string(string, current_year))

(***************************************************************************)
(* The tokens handed to date_from_string: written from numbers the way a   *)
(* user types them (plain or zero-padded), then parsed from the text.      *)
(***************************************************************************)
RECURSIVE Dec(_)
Dec(n) ==
    IF n < 10 THEN <<DigitChars[n + 1]>>
    ELSE Dec(n \div 10) \o <<DigitChars[(n % 10) + 1]>>

\* n as typed: "7" or "07"
NumForms(n) == {Dec(n)} \cup (IF n < 10 THEN {<<"0">> \o Dec(n)} ELSE {})

\* <<number, text>> for every number of S
Typed(S) == UNION {{<<n, f>> : f \in NumForms(n)} : n \in S}

TokenYears == (FirstTokenYear .. (FirstTokenYear + NumTokenYears - 1)) \cup {1900, 2000, 9999}

\* Year fields of four digits: the token years, 0000 and 0999.
FourDigitYears ==
    {Dec(y) : y \in TokenYears} \cup {<<"0", "0", "0", "0">>, <<"0">> \o Dec(999)}

\* Year fields with fewer or more than four digits.
OtherYears ==
    {Dec(232), Dec(659), Dec(23), Dec(20189), Dec(65900), <<"0", "0">> \o Dec(232)}

YearFields == FourDigitYears \cup OtherYears

NowYears == {FirstTokenYear + 1, FirstTokenYear + 4}

Letter(shape, upper) ==
    CASE shape = "week" -> IF upper THEN <<"W">> ELSE <<"w">>
      [] shape = "quarter" -> IF upper THEN <<"Q">> ELSE <<"q">>
      [] shape = "half" -> IF upper THEN <<"H">> ELSE <<"h">>

Slash(present) == IF present THEN <<"/">> ELSE <<>>

Token(shape, n1, n2, ystr, slash, string) ==
    [shape |-> shape, n1 |-> n1, n2 |-> n2, ystr |-> ystr, slash |-> slash,
     string |-> string]

FullDateTokens ==
    {Token("full", d[1], m[1], y, TRUE, d[2] \o <<"/">> \o m[2] \o <<"/">> \o y) :
        d \in Typed((0 .. MaxDayNum) \cup {99}),
        m \in Typed((0 .. MaxMonthNum) \cup {99}),
        y \in YearFields}

MonthTokens ==
    {Token("month", m[1], 0, y, TRUE, m[2] \o <<"/">> \o y) :
        m \in Typed((0 .. MaxMonthNum) \cup {99, 111}), y \in YearFields}

LetterTokens(shape, numbers, slashes, years) ==
    {Token(shape, n[1], 0, y, sl, Letter(shape, up) \o n[2] \o Slash(sl) \o y) :
        n \in numbers, y \in years, sl \in slashes, up \in BOOLEAN}

WeekTokens ==
    LetterTokens("week", Typed((0 .. MaxWeek) \cup {111}), BOOLEAN, YearFields \cup {<<>>})

QuarterTokens ==
    LetterTokens("quarter", {<<n, Dec(n)>> : n \in (0 .. MaxQuarterNum) \cup {12}},
                 BOOLEAN, YearFields \cup {<<>>})

HalfTokens ==
    LetterTokens("half", {<<n, Dec(n)>> : n \in (0 .. MaxHalfNum) \cup {12}},
                 BOOLEAN, YearFields \cup {<<>>})

YearTokens == {Token("year", 0, 0, y, FALSE, y) : y \in YearFields \cup {Dec(1), Dec(1950)}}

\* Text that is no token, or a token with something around it.
RawStrings ==
    {<<>>, <<" ">>, <<"a", "b", "c">>, <<"w">>, <<"/">>, <<"-">>,
     <<"q", ",", "/">> \o Dec(2012), <<"h", ",", "/">> \o Dec(2018), <<"Q", ",">>,
     <<"Q", "0">> \o Dec(234) \o <<"/">> \o Dec(2012),
     <<"H", "0">> \o Dec(234) \o <<"/">> \o Dec(2012),
     Dec(2018) \o <<"\n">>, Dec(2018) \o <<"\n", "\n">>, Dec(2018) \o <<" ">>,
     <<" ">> \o Dec(2018),
     Dec(12) \o <<"/">> \o Dec(2018) \o <<"\n">>,
     <<"w", "1", "\n">>, <<"w", "1", "/">> \o Dec(2018) \o <<"x">>,
     <<"Q", "2", "/">> \o Dec(2018) \o <<"\n">>,
     <<"h", "2", "/">> \o Dec(2018) \o <<"\n">>,
     Dec(1) \o <<"/">> \o Dec(1) \o <<"/">> \o Dec(2018) \o <<"x">>,
     Dec(1) \o <<"/">> \o Dec(1) \o <<"/">> \o Dec(2018) \o <<"\n">>,
     Dec(1) \o <<"/">> \o Dec(1) \o <<"/">>,
     Dec(111) \o <<"/">> \o Dec(1) \o <<"/">> \o Dec(2018),
     Dec(1) \o <<"/">> \o Dec(111) \o <<"/">> \o Dec(2018)}

RawTokens == {Token("raw", 0, 0, <<>>, FALSE, r) : r \in RawStrings}

Tokens ==
    FullDateTokens \cup MonthTokens \cup WeekTokens \cup QuarterTokens
        \cup HalfTokens \cup YearTokens \cup RawTokens

(***************************************************************************)
(* Calls of date_from_string on tokens drawn in the initial state; the     *)
(* wall clock's year (datetime.datetime.now().year) is an input too.       *)
(***************************************************************************)
InitParse ==
    /\ pc = "call"
    /\ arg \in {[kind |-> "token", token |-> t, now |-> n] : t \in Tokens, n \in NowYears}
    /\ res = None
    /\ prev = None
    /\ NoObjects

DateFromStringCall ==
    /\ pc = "call"
    /\ arg.kind = "token"
    /\ res' = date_from_string(arg.token.string, arg.now)
    /\ pc' = "done"
    /\ UNCHANGED <<arg, prev>>
    /\ UNCHANGED objects

NextParse == DateFromStringCall

SpecParse == InitParse /\ [][NextParse]_vars


(***************************************************************************)
(* Calls of date_range_from_string: on one token, or on two clauses A and  *)
(* B written "A-B" with optional blanks around each, followed by a call on *)
(* the clauses in the other order, "B-A".                                  *)
(***************************************************************************)
RangeYears == {Dec(FirstTokenYear + 2), Dec(FirstTokenYear + 3)}

RangeTokens ==
    {Token("full", d, m, y, TRUE, Dec(d) \o <<"/">> \o Dec(m) \o <<"/">> \o y) :
        d \in {1, 15, 31}, m \in {1, 2, 12}, y \in RangeYears}
    \cup {Token("month", m, 0, y, TRUE, Dec(m) \o <<"/">> \o y) :
            m \in {1, 6, 12}, y \in RangeYears}
    \cup LetterTokens("week", {<<n, Dec(n)>> : n \in {0, 1, 26, 53}}, {TRUE},
                      RangeYears \cup {<<>>})
    \cup LetterTokens("quarter", {<<n, Dec(n)>> : n \in 1 .. 4}, {TRUE}, RangeYears)
    \cup LetterTokens("half", {<<n, Dec(n)>> : n \in 1 .. 2}, {TRUE}, RangeYears)
    \cup {Token("year", 0, 0, y, FALSE, y) : y \in RangeYears}
    \cup {Token("raw", 0, 0, <<>>, FALSE, r) : r \in {<<>>, <<"a", "b", "c">>}}

Blanks == {<<>>, <<" ">>}

\* "A-B" with the blanks la around A and lb around B
RangeString(a, b, la, lb) ==
    la \o a.string \o la \o <<"-">> \o lb \o b.string \o lb

TokenArg(t, l) ==
    [kind |-> "token", a |-> t, b |-> t, la |-> l, lb |-> l, string |-> l \o t.string,
     now |-> FirstTokenYear + 1]

RangeArg(a, b, la, lb) ==
    [kind |-> "range", a |-> a, b |-> b, la |-> la, lb |-> lb,
     string |-> RangeString(a, b, la, lb), now |-> FirstTokenYear + 1]

InitRange ==
    /\ pc = "call"
    /\ \E a \in RangeTokens, b \in RangeTokens, la \in Blanks, lb \in Blanks :
           \/ arg = RangeArg(a, b, la, lb)
           \/ a = b /\ la = lb /\ arg = TokenArg(a, la)
    /\ res = None
    /\ prev = None
    /\ NoObjects

DateRangeFromStringCall ==
    /\ pc = "call"
    /\ arg.kind \in {"token", "range"}
    /\ res' = date_range_from_string(arg.string, arg.now)
    /\ pc' = "done"
    /\ UNCHANGED <<arg, prev>>
    /\ UNCHANGED objects

\* The same two clauses, written in the other order.
ReversedCall ==
    /\ pc = "done"
    /\ arg.kind = "range"
    /\ LET string == RangeString(arg.b, arg.a, arg.lb, arg.la)
       IN  /\ arg' = [arg EXCEPT !.string = string]
           /\ res' = date_range_from_string(string, arg.now)
    /\ prev' = res
    /\ pc' = "reversed"
    /\ UNCHANGED objects

NextRange == DateRangeFromStringCall \/ ReversedCall

SpecRange == InitRange /\ [][NextRange]_vars

(***************************************************************************)
(* Claims about the calendar arithmetic, under SpecCalendar.               *)
(***************************************************************************)
WeekCallDone == pc = "done" /\ arg.kind = "week"
DateCallDone == pc = "done" /\ arg.kind = "date"

\* The ISO-8601 reference: week 1 is the week that contains January 4th.
IsoWeekOneMonday(year) ==
    LET jan4 == [year |-> year, month |-> 1, day |-> 4]
    IN  toordinal(jan4) - weekday(jan4)

IsoWeeksInYear(year) == (IsoWeekOneMonday(year + 1) - IsoWeekOneMonday(year)) \div 7

\* C1: for every year and every week in 1..53, from_week_number(year, week) is a
\* Monday and from_week_number(year, week, end=True) is the date 6 days later, a
\* Sunday (week 53 of a 52-week year included).
C1_WeekStartsMondayEndsSunday ==
    (WeekCallDone /\ arg.week >= 1 /\ arg.week <= 53) =>
        /\ ~IsExc(res.start)
        /\ ~IsExc(res.end)
        /\ weekday(res.start) = 0
        /\ toordinal(res.end) = toordinal(res.start) + 6
        /\ weekday(res.end) = 6

\* C1 witness: week 53 of a year that has only 52 ISO weeks was resolved to a Monday.
C1_Witness ==
    /\ WeekCallDone
    /\ arg.week = 53
    /\ IsoWeeksInYear(arg.year) = 52
    /\ ~IsExc(res.start)
    /\ weekday(res.start) = 0

\* C2: for every week W that exists in ISO year Y, from_week_number(Y, W) is the
\* Monday of ISO week W of Y, whatever the weekday of January 1st.
C2_WeekStartIsIsoMonday ==
    (WeekCallDone /\ arg.week >= 1 /\ arg.week <= IsoWeeksInYear(arg.year)) =>
        /\ ~IsExc(res.start)
        /\ toordinal(res.start) = IsoWeekOneMonday(arg.year) + 7 * (arg.week - 1)
        /\ isocalendar(res.start) = <<arg.year, arg.week>>

\* C2 witness: an existing week 53 of a year whose strptime date had to be
\* shifted back by 7 days.
C2_Witness ==
    /\ WeekCallDone
    /\ arg.week = 53
    /\ IsoWeeksInYear(arg.year) = 53
    /\ needs_iso_shift(arg.year)
    /\ ~IsExc(res.start)
    /\ isocalendar(res.start) = <<arg.year, 53>>

\* C3: every date d lies in [from_week_number(*yw(d)), from_week_number(*yw(d),
\* end=True)]; monday(d) is the Monday of d's own week and monday is idempotent.
C3_RoundTripWithinWeek ==
    DateCallDone =>
        /\ ~IsExc(res.start)
        /\ ~IsExc(res.end)
        /\ date_le(res.start, ArgDate)
        /\ date_le(ArgDate, res.end)
        /\ toordinal(res.start) = toordinal(ArgDate) - weekday(ArgDate)
        /\ res.again = res.start

\* C3 witness: a date of late December whose ISO year is the next calendar year,
\* and which is not itself a Monday.
C3_Witness ==
    /\ DateCallDone
    /\ arg.month = 12
    /\ res.yw[1] = arg.year + 1
    /\ ~IsExc(res.start)
    /\ date_lt(res.start, ArgDate)
    /\ res.again = res.start

(***************************************************************************)
(* Claims about date_from_string, under SpecParse.                         *)
(***************************************************************************)
ParseDone == pc = "done" /\ arg.kind = "token"

\* The year a token names: its year field, or the current year without one.
TokenYear == IF arg.token.ystr = <<>> THEN arg.now ELSE int_value(arg.token.ystr)

\* The token's year field has four digits (or, where the grammar lets it, is absent).
FourDigitYear ==
    \/ Len(arg.token.ystr) = 4
    \/ arg.token.ystr = <<>> /\ arg.token.shape \in {"week", "quarter"}

\* The Gregorian calendar, as a reference.
RefLeap(year) == (year % 4 = 0 /\ year % 100 # 0) \/ year % 400 = 0

RefMonthLength(year, month) ==
    IF month \in {4, 6, 9, 11} THEN 30
    ELSE IF month # 2 THEN 31
    ELSE IF RefLeap(year) THEN 29
    ELSE 28

RefRealDay(year, month, day) ==
    /\ year >= 1 /\ year <= 9999
    /\ month >= 1 /\ month <= 12
    /\ day >= 1 /\ day <= RefMonthLength(year, month)

RefDate(year, month, day) == [year |-> year, month |-> month, day |-> day]

MatchesNoPattern(string) ==
    /\ FULL_DATE_REGEX(string) = NoMatch
    /\ MONTH_REGEX(string) = NoMatch
    /\ WEEK_REGEX(string) = NoMatch
    /\ QUARTER_REGEX(string) = NoMatch
    /\ HALF_REGEX(string) = NoMatch
    /\ YEAR_REGEX(string) = NoMatch

\* A numeric field of the token is outside its domain.
FieldOutOfDomain ==
    LET t == arg.token
    IN  /\ FourDigitYear
        /\ \/ t.shape = "week" /\ (t.n1 = 0 \/ t.n1 > 53)
           \/ t.shape = "quarter" /\ (t.n1 < 1 \/ t.n1 > 4)
           \/ t.shape = "half" /\ (t.n1 < 1 \/ t.n1 > 2)
           \/ t.shape = "month" /\ (t.n1 < 1 \/ t.n1 > 12)
           \/ t.shape = "full" /\ (t.n2 < 1 \/ t.n2 > 12)
           \/ t.shape = "full" /\ t.n2 >= 1 /\ t.n2 <= 12
                /\ (t.n1 < 1 \/ t.n1 > RefMonthLength(TokenYear, t.n2))

\* C4: date_from_string fails with a ValueError, and returns no range, for every
\* token that matches no pattern and for every token with a numeric field outside
\* its domain (week, quarter, half, month, day of the month).
C4_RejectedWithValueError ==
    (ParseDone /\ (MatchesNoPattern(arg.token.string) \/ FieldOutOfDomain)) =>
        res = ValueError

\* C4 witness: the token of week 0 of a four-digit year was rejected.
C4_Witness ==
    /\ ParseDone
    /\ arg.token.shape = "week"
    /\ arg.token.n1 = 0
    /\ Len(arg.token.ystr) = 4
    /\ WEEK_REGEX(arg.token.string) # NoMatch
    /\ res = ValueError

\* C5: every token whose year field has fewer or more than four digits is
\* rejected with a parse error, in every token shape (the year field of a week,
\* quarter or half token being what follows its "/").
C5_NonFourDigitYearRejected ==
    (/\ ParseDone
     /\ arg.token.shape \in {"full", "month", "week", "quarter", "half", "year"}
     /\ arg.token.slash \/ arg.token.shape = "year"
     /\ arg.token.ystr # <<>>
     /\ Len(arg.token.ystr) # 4) =>
        res = ValueError

\* C6: a full-date token D/M/YYYY of a real calendar day resolves to [date, date]
\* with day D and month M; one of a day that does not exist is rejected with a
\* parse error.
C6_FullDateDayFirst ==
    (ParseDone /\ arg.token.shape = "full" /\ Len(arg.token.ystr) = 4) =>
        IF RefRealDay(TokenYear, arg.token.n2, arg.token.n1)
        THEN res = [start |-> RefDate(TokenYear, arg.token.n2, arg.token.n1),
                    end |-> RefDate(TokenYear, arg.token.n2, arg.token.n1)]
        ELSE res = ValueError

\* C6 witness: a zero-padded token whose day and month are both at most 12 and
\* differ was resolved with the day first.
C6_Witness ==
    /\ ParseDone
    /\ arg.token.shape = "full"
    /\ Len(arg.token.ystr) = 4
    /\ arg.token.n1 >= 1 /\ arg.token.n1 < arg.token.n2 /\ arg.token.n2 <= 12
    /\ arg.token.string[1] = "0"
    /\ ~IsExc(res)
    /\ res.start.day = arg.token.n1
    /\ res.start.month = arg.token.n2
    /\ res.end = res.start

\* C7: a month token M/YYYY with M in 1..12 resolves to [first day, last day] of
\* that month of the Gregorian calendar (29 February exactly in leap years),
\* the same for "2/2016" and "02/2016".
C7_MonthFirstToLastDay ==
    (/\ ParseDone
     /\ arg.token.shape = "month"
     /\ Len(arg.token.ystr) = 4
     /\ TokenYear >= 1
     /\ arg.token.n1 >= 1 /\ arg.token.n1 <= 12) =>
        res = [start |-> RefDate(TokenYear, arg.token.n1, 1),
               end |-> RefDate(TokenYear, arg.token.n1,
                               RefMonthLength(TokenYear, arg.token.n1))]

\* C7 witness: a zero-padded February of a leap year ended on the 29th.
C7_Witness ==
    /\ ParseDone
    /\ arg.token.shape = "month"
    /\ arg.token.n1 = 2
    /\ arg.token.string[1] = "0"
    /\ RefLeap(TokenYear)
    /\ ~IsExc(res)
    /\ res.start = RefDate(TokenYear, 2, 1)
    /\ res.end = RefDate(TokenYear, 2, 29)

\* The period of `months` months numbered n of the year (a quarter: 3, a half: 6)
\* runs from the first day of month (n-1)*months+1 to the last day of month
\* n*months, and ends the day before the next period starts.
RefPeriod(months, n, periods) ==
    /\ ~IsExc(res)
    /\ res.start = RefDate(TokenYear, (n - 1) * months + 1, 1)
    /\ res.end = RefDate(TokenYear, n * months, RefMonthLength(TokenYear, n * months))
    /\ n = 1 => res.start = RefDate(TokenYear, 1, 1)
    /\ n = periods => res.end = RefDate(TokenYear, 12, 31)
    /\ n < periods =>
           toordinal(res.end) + 1 = toordinal(RefDate(TokenYear, n * months + 1, 1))

\* C8: quarter, half and year tokens resolve to inclusive first-day-to-last-day
\* ranges, so the four quarters and the two halves tile their year.
C8_QuarterHalfYearRanges ==
    (ParseDone /\ FourDigitYear /\ TokenYear >= 1) =>
        /\ (arg.token.shape = "quarter" /\ arg.token.n1 \in 1 .. 4) =>
               RefPeriod(3, arg.token.n1, 4)
        /\ (arg.token.shape = "half" /\ arg.token.n1 \in 1 .. 2 /\ arg.token.slash) =>
               RefPeriod(6, arg.token.n1, 2)
        /\ arg.token.shape = "year" =>
               res = [start |-> RefDate(TokenYear, 1, 1),
                      end |-> RefDate(TokenYear, 12, 31)]

\* C8 witness: the second quarter of a year ended on June 30th, the day before
\* the third quarter starts.
C8_Witness ==
    /\ ParseDone
    /\ arg.token.shape = "quarter"
    /\ arg.token.n1 = 2
    /\ Len(arg.token.ystr) = 4
    /\ ~IsExc(res)
    /\ res.start = RefDate(TokenYear, 4, 1)
    /\ res.end = RefDate(TokenYear, 6, 30)

(***************************************************************************)
(* Claims about date_range_from_string, under SpecRange.                   *)
(***************************************************************************)
TokenYearOf(t) == int_value(t.ystr)

\* The clauses' native ranges.
NativeA == date_from_string(arg.a.string, arg.now)
NativeB == date_from_string(arg.b.string, arg.now)

BothClausesValid == arg.kind = "range" /\ ~IsExc(NativeA) /\ ~IsExc(NativeB)

Earlier(x, y) == IF date_lt(y, x) THEN y ELSE x
Later(x, y) == IF date_lt(y, x) THEN x ELSE y

\* The two dates in ascending order.
Ascending(x, y) == [start |-> Earlier(x, y), end |-> Later(x, y)]

\* C9: without a "-" the result is the token's native [start, end]; for "A-B",
\* blanks around the clauses trimmed, it is the pair {A.start, B.end} in ascending
\* order; a returned range always has start <= end.
C9_RangeIsStartOfFirstEndOfSecond ==
    pc = "done" =>
        /\ (arg.kind = "token" /\ ~contains_dash(arg.string)) =>
               res = date_from_string(arg.string, arg.now)
        /\ BothClausesValid => res = Ascending(NativeA.start, NativeB.end)
        /\ ~IsExc(res) => date_le(res.start, res.end)

\* C9 witness: two blank-padded clauses whose first starts after the second ends
\* were combined, and the pair came back in ascending order.
C9_Witness ==
    /\ pc = "done"
    /\ BothClausesValid
    /\ arg.la = <<" ">>
    /\ arg.lb = <<" ">>
    /\ date_lt(NativeB.end, NativeA.start)
    /\ res = [start |-> NativeB.end, end |-> NativeA.start]

\* C10 as claimed: "A-B" and "B-A" resolve to the same range, from the start of
\* the earlier clause to the end of the later clause.
C10_ClauseOrderIrrelevant ==
    (pc = "reversed" /\ BothClausesValid) =>
        /\ res = prev
        /\ res = [start |-> Earlier(NativeA.start, NativeB.start),
                  end |-> Later(NativeA.end, NativeB.end)]

\* C10 amended: "A-B" resolves to the ascending pair {A.start, B.end} and "B-A"
\* to the ascending pair {B.start, A.end}; the two are the same range exactly when
\* A and B name the same range or each names a single day.
C10_ClauseOrderMatters ==
    (pc = "reversed" /\ BothClausesValid) =>
        /\ prev = Ascending(NativeA.start, NativeB.end)
        /\ res = Ascending(NativeB.start, NativeA.end)
        /\ (res = prev) <=>
               \/ NativeA = NativeB
               \/ NativeA.start = NativeA.end /\ NativeB.start = NativeB.end

\* C10 witness: the first week and the second quarter of a year, in both orders:
\* "w1-Q2" ran from the week's Monday to June 30th, "Q2-w1" from the week's Sunday
\* to April 1st.
C10_Witness ==
    /\ pc = "reversed"
    /\ BothClausesValid
    /\ arg.a.shape = "week" /\ arg.a.n1 = 1 /\ arg.a.ystr # <<>>
    /\ arg.b.shape = "quarter" /\ arg.b.n1 = 2 /\ arg.b.ystr = arg.a.ystr
    /\ prev = [start |-> NativeA.start, end |-> RefDate(TokenYearOf(arg.a), 6, 30)]
    /\ res = [start |-> NativeA.end, end |-> RefDate(TokenYearOf(arg.a), 4, 1)]

(***************************************************************************)
(* Week buckets (report_creator.py) and the weeks of a date range          *)
(* (dateutils.py).  A datetime.date is a date record with the extra field  *)
(* date_only; a Python list that may also be None is a record [items].     *)
(***************************************************************************)
TypeError == [exc |-> "TypeError"]
AttributeError == [exc |-> "AttributeError"]

\* datetime.datetime(...).date()
as_date(d) == [year |-> d.year, month |-> d.month, day |-> d.day, date_only |-> TRUE]

is_date_only(d) == "date_only" \in DOMAIN d

\* "<", ">", "<=", ">=" between a datetime.date and a datetime.datetime raise
\* TypeError ("can't compare datetime.datetime to datetime.date").
not_comparable(a, b) == is_date_only(a) # is_date_only(b)

list(items) == [items |-> items]

next_week(date) == from_date_offset(date, 7)

\* A variant of weeks_until that leaves out the week of the end date.
RECURSIVE weeks_until_before_end(_, _, _)
weeks_until_before_end(week, end, weeks) ==
    IF IsExc(week) THEN week
    ELSE IF date_lt(week, end)
         THEN weeks_until_before_end(next_week(week), end, Append(weeks, week))
    ELSE list(weeks)

\* "while week <= end: weeks.append(week); week = cls.next_week(week)"
RECURSIVE weeks_until(_, _, _)
weeks_until(week, end, weeks) ==
    IF IsExc(week) THEN week
    ELSE IF date_le(week, end)
         THEN weeks_until(next_week(week), end, Append(weeks, week))
    ELSE list(weeks)

\* the loop of get_weeks_in_date_range, entered when neither monday() raised
weeks_from_mondays(start, end) ==
    IF IsExc(start) THEN start
    ELSE IF IsExc(end) THEN end
    ELSE weeks_until(start, end, <<>>)

get_weeks_in_date_range(start, end) == weeks_from_mondays(monday(start), monday(end))

\* TaskFilter.create_same_filter_with_different_dates: the scope (project,
\* customer, user, task type) is copied, the dates are set.
create_same_filter_with_different_dates(task_filter, start_date, end_date) ==
    [scope |-> task_filter.scope, start_date |-> start_date, end_date |-> end_date]

\* TaskFilter(project=..., customer=..., user=..., task_type=...)
TaskFilter(scope) == [scope |-> scope, start_date |-> None, end_date |-> None]

\* the fields PeriodOfWork.__init__ sets, once the filter's end date is known
period_fields(start_date, num_days, task_filter, tasks, filter_end) ==
    IF IsExc(filter_end) THEN filter_end
    ELSE [start_date |-> start_date,
          num_days |-> num_days,
          users |-> {},
          tasks |-> tasks,
          task_filter |-> create_same_filter_with_different_dates(
                              task_filter, start_date, filter_end)]

PeriodOfWork(start_date, num_days, task_filter, tasks) ==
    period_fields(start_date, num_days, task_filter, tasks,
                  from_date_offset(start_date, num_days - 1))

\* WeekOfWork.__init__ after "date = DateUtils.from_week_number(year, week)"
week_fields(year, week, fields) ==
    IF IsExc(fields) THEN fields
    ELSE [start_date |-> fields.start_date,
          num_days |-> fields.num_days,
          users |-> fields.users,
          tasks |-> fields.tasks,
          task_filter |-> fields.task_filter,
          week |-> week,
          year |-> year]

week_from_date(year, week, date, task_filter, tasks) ==
    IF IsExc(date) THEN date
    ELSE week_fields(year, week, PeriodOfWork(date, 7, task_filter, tasks))

WeekOfWork(year, week, task_filter, tasks) ==
    week_from_date(year, week, from_week_number(year, week, FALSE), task_filter, tasks)

\* "[cls(*DateUtils.year_and_week_number(week_date), task_filter=task_filter,
\*   tasks=[]) for week_date in week_dates]"
RECURSIVE weeks_of_dates(_, _, _, _)
weeks_of_dates(week_dates, i, task_filter, weeks) ==
    IF i > Len(week_dates) THEN list(weeks)
    ELSE LET yw == year_and_week_number(week_dates[i])
             week == WeekOfWork(yw[1], yw[2], task_filter, list(<<>>))
         IN  IF IsExc(week) THEN week
             ELSE weeks_of_dates(week_dates, i + 1, task_filter, Append(weeks, week))

weeks_of_week_dates(week_dates, task_filter) ==
    IF IsExc(week_dates) THEN week_dates
    ELSE weeks_of_dates(week_dates.items, 1, task_filter, <<>>)

create_array_of_weeks_between_dates(start, end, task_filter) ==
    weeks_of_week_dates(get_weeks_in_date_range(start, end), task_filter)

(***************************************************************************)
(* phpreport.py: the identity registry PHPReportObject.instances and the   *)
(* classes User, Customer, Project and Task.  An object is a record of the *)
(* heap, known by its index (its identity); a registry state is a record   *)
(* [heap, instances, ref, raised]: the objects, the registry, the object   *)
(* the last call returned and the exception it raised ("" for none).       *)
(* A datetime with a time of day is a record [year, month, day, hour,      *)
(* minute]; a timedelta is a record [days, seconds], normalised as Python  *)
(* does (0 <= seconds < 86400).                                            *)
(***************************************************************************)
\* datetime.timedelta(days=days, seconds=seconds)
timedelta(days, seconds) ==
    [days |-> days + (seconds \div 86400), seconds |-> seconds % 86400]

timedelta_add(a, b) == timedelta(a.days + b.days, a.seconds + b.seconds)

\* datetime.datetime.combine(date, time)
combine(date, hour, minute) ==
    [year |-> date.year, month |-> date.month, day |-> date.day,
     hour |-> hour, minute |-> minute]

\* DEFAULT_DATE = datetime.datetime(1970, 1, 1)
DEFAULT_DATE == [year |-> 1970, month |-> 1, day |-> 1, hour |-> 0, minute |-> 0]

\* datetime - datetime
datetime_sub(a, b) ==
    timedelta(toordinal(a) - toordinal(b),
              (a.hour - b.hour) * 3600 + (a.minute - b.minute) * 60)

\* datetime + timedelta(hours=24), once the next day is known
same_time_on(day, time) ==
    IF IsExc(day) THEN day ELSE combine(day, time.hour, time.minute)

plus_24_hours(time) == same_time_on(date_add(time, 1), time)

\* "self.init_time.hour == 0 and self.end_time.minute == 0": the task is left
\* alone as a zero-hour task
zero_hour_task(init_time, end_time) == init_time.hour = 0 /\ end_time.minute = 0

\* Task.__post_init__, the work-around for end times of 0:00
corrected_end_time(init_time, end_time) ==
    IF end_time.hour = 0 /\ end_time.minute = 0
    THEN IF ~zero_hour_task(init_time, end_time)
         THEN plus_24_hours(end_time)
         ELSE end_time
    ELSE end_time

\* Task.length
length(task) == datetime_sub(task.end_time, task.init_time)

\* A field declared with dataclasses.field(init=False) and not set yet.
NoRef == 0

EmptyRegistry == [heap |-> <<>>, instances |-> NoInstances, ref |-> NoRef, raised |-> ""]

\* object creation: the new object's identity is the next index of the heap
allocated(st, object) ==
    [st EXCEPT !.heap = Append(@, object), !.ref = Len(st.heap) + 1]

\* A variant of PHPReportObject__init__ that keeps one registry for all classes.
PHPReportObject__init__shared(st, cls, self, phpreport_id) ==
    [st EXCEPT !.instances = [c \in Classes |-> (phpreport_id :> self) @@ st.instances[c]]]

\* "PHPReportObject.instances[type(self)][phpreport_id] = self"
PHPReportObject__init__(st, cls, self, phpreport_id) ==
    [st EXCEPT !.instances[cls] = (phpreport_id :> self) @@ @]

\* "return instances[phpreport_id]": a KeyError when the id is not registered
registered(st, cls, phpreport_id) ==
    IF phpreport_id \in DOMAIN st.instances[cls]
    THEN [st EXCEPT !.ref = st.instances[cls][phpreport_id]]
    ELSE [st EXCEPT !.ref = NoRef, !.raised = "KeyError"]

\* "if phpreport_id == -1 and -1 not in instances"
needs_placeholder(st, cls, phpreport_id) ==
    phpreport_id = -1 /\ -1 \notin DOMAIN st.instances[cls]

\* The defaults of the fields login, name and description: "<unknown>" and
\* "<description>"
unknown == <<"<", "u", "n", "k", "n", "o", "w", "n", ">">>

no_description == <<"<", "d", "e", "s", "c", "r", "i", "p", "t", "i", "o", "n", ">">>

\* The names of the objects of the unit tests' server.
VeryCool == <<"V", "e", "r", "y", " ", "c", "o", "o", "l">>

VeryOld == <<"V", "e", "r", "y", " ", "o", "l", "d">>

CustomEr == <<"C", "u", "s", "t", "o", "m", " ", "E", "r">>

TestUser == <<"t", "e", "s", "t", "u", "s", "e", "r">>

OtherUser == <<"o", "t", "h", "e", "r">>

\* DEFAULT_DATE.date(), the default of a project's init_date and end_date
DEFAULT_DAY == [year |-> 1970, month |-> 1, day |-> 1, date_only |-> TRUE]

\* User(phpreport_id, login): the dataclass sets the fields, __post_init__ registers
new_User(st, phpreport_id, login) ==
    PHPReportObject__init__(
        allocated(st, [cls |-> "User", phpreport_id |-> phpreport_id, login |-> login]),
        "User", Len(st.heap) + 1, phpreport_id)

User_find(st, phpreport_id) ==
    registered(IF needs_placeholder(st, "User", phpreport_id)
               THEN new_User(st, -1, unknown)
               ELSE st,
               "User", phpreport_id)

new_Customer(st, phpreport_id, name) ==
    PHPReportObject__init__(
        allocated(st, [cls |-> "Customer", phpreport_id |-> phpreport_id, name |-> name]),
        "Customer", Len(st.heap) + 1, phpreport_id)

Customer_find(st, phpreport_id) ==
    registered(IF needs_placeholder(st, "Customer", phpreport_id)
               THEN new_Customer(st, -1, unknown)
               ELSE st,
               "Customer", phpreport_id)

\* "object.__setattr__(self, "customer", Customer.find(self.customer_id))":
\* found is the registry state Customer.find left
with_customer(found, self) ==
    IF found.raised # "" THEN found
    ELSE [found EXCEPT !.heap[self].customer = found.ref, !.ref = self]

\* Project(phpreport_id, description, customer_id, init_date, end_date) and
\* its __post_init__
new_Project_dated(st, phpreport_id, description, customer_id, init_date, end_date) ==
    with_customer(
        Customer_find(
            PHPReportObject__init__(
                allocated(st, [cls |-> "Project", phpreport_id |-> phpreport_id,
                               description |-> description,
                               customer_id |-> customer_id, customer |-> NoRef,
                               init_date |-> init_date, end_date |-> end_date]),
                "Project", Len(st.heap) + 1, phpreport_id),
            customer_id),
        Len(st.heap) + 1)

\* Project(phpreport_id, description, customer_id): the dates at their default
new_Project(st, phpreport_id, description, customer_id) ==
    new_Project_dated(st, phpreport_id, description, customer_id, DEFAULT_DAY, DEFAULT_DAY)

Project_find(st, phpreport_id) ==
    registered(IF needs_placeholder(st, "Project", phpreport_id)
               THEN new_Project(st, -1, no_description, -1)
               ELSE st,
               "Project", phpreport_id)

\* "object.__setattr__(self, "user", User.find(self.user_id))"
with_user(found, self) ==
    IF found.raised # "" THEN found
    ELSE [found EXCEPT !.heap[self].user = found.ref, !.ref = self]

\* "object.__setattr__(self, "project", Project.find(self.project_id))"
with_project(found, self) ==
    IF found.raised # "" THEN found
    ELSE [found EXCEPT !.heap[self].project = found.ref, !.ref = self]

\* Task.__post_init__ from the look-up of the project on
project_looked_up(st, self) ==
    IF st.raised # "" THEN st
    ELSE with_project(Project_find(st, st.heap[self].project_id), self)

\* "object.__setattr__(self, "end_time", self.end_time + datetime.timedelta(hours=24))"
with_corrected_end_time(st, self) ==
    IF st.raised # "" THEN st
    ELSE IF IsExc(corrected_end_time(st.heap[self].init_time, st.heap[self].end_time))
    THEN [st EXCEPT !.ref = NoRef, !.raised = "OverflowError"]
    ELSE [st EXCEPT !.heap[self].end_time =
                        corrected_end_time(st.heap[self].init_time, @)]

\* The fields of a Task the dataclass sets: user and project are set later.
task_fields(phpreport_id, user_id, project_id, date, init_time, end_time, onsite) ==
    [cls |-> "Task", phpreport_id |-> phpreport_id,
     user_id |-> user_id, user |-> NoRef,
     project_id |-> project_id, project |-> NoRef,
     text |-> <<>>, story |-> <<>>, ttype |-> <<>>, phase |-> <<>>,
     date |-> date, init_time |-> init_time, end_time |-> end_time,
     onsite |-> onsite, telework |-> FALSE]

\* Task(...): the dataclass sets the fields, then Task.__post_init__
new_Task(st, fields) ==
    with_corrected_end_time(
        project_looked_up(
            with_user(
                User_find(
                    PHPReportObject__init__(allocated(st, fields), "Task",
                                            Len(st.heap) + 1, fields.phpreport_id),
                    fields.user_id),
                Len(st.heap) + 1),
            Len(st.heap) + 1),
        Len(st.heap) + 1)

\* Task(): every field at its default
default_task_fields ==
    task_fields(-1, -1, -1, as_date(DEFAULT_DATE), DEFAULT_DATE, DEFAULT_DATE, FALSE)

Task_find(st, phpreport_id) ==
    registered(IF needs_placeholder(st, "Task", phpreport_id)
               THEN new_Task(st, default_task_fields)
               ELSE st,
               "Task", phpreport_id)

\* The Task object of a registry state as the report code reads it: its user
\* and its project are the objects themselves.
task_of(st, self) ==
    [st.heap[self] EXCEPT !.user = st.heap[st.heap[self].user],
                          !.project = st.heap[st.heap[self].project]]

(***************************************************************************)
(* phpreport.py: the objects of a response.  A response is the tree that   *)
(* ElementTree.fromstring gives for it: the sequence of the children of    *)
(* its root, each a record [tag, children]; children is the element of an  *)
(* object, a sequence of records [tag, text].                              *)
(***************************************************************************)
\* The place on the heap of the first object of a class with an id.
first_with_id(st, cls, phpreport_id) ==
    CHOOSE self \in 1 .. Len(st.heap) :
        /\ st.heap[self].cls = cls
        /\ st.heap[self].phpreport_id = phpreport_id
        /\ \A other \in 1 .. (self - 1) :
               ~(st.heap[other].cls = cls /\ st.heap[other].phpreport_id = phpreport_id)

\* PHPReportObject.all: the registered objects of a class as a dict gives its
\* values, in the order in which their ids were registered first.  An object
\* is registered as it is constructed, so that the ids are in the order of
\* the first objects with them on the heap.
all(st, cls) ==
    [k \in 1 .. Cardinality(DOMAIN st.instances[cls]) |->
        st.instances[cls][
            CHOOSE id \in DOMAIN st.instances[cls] :
                Cardinality({other \in DOMAIN st.instances[cls] :
                                first_with_id(st, cls, other)
                                    <= first_with_id(st, cls, id)}) = k]]

\* The digits of int(text) after the sign: decimal digits with single
\* underscores between them.
int_digits(text) ==
    /\ text # <<>>
    /\ IsDigit(text[1])
    /\ IsDigit(text[Len(text)])
    /\ \A i \in 1 .. Len(text) : IsDigit(text[i]) \/ text[i] = "_"
    /\ \A i \in 1 .. (Len(text) - 1) : ~(text[i] = "_" /\ text[i + 1] = "_")

without_sign(text) ==
    IF text # <<>> /\ text[1] \in {"+", "-"} THEN Tail(text) ELSE text

\* The integer of a stripped text whose part after the sign is digits.
int_signed(stripped, digits) ==
    IF ~int_digits(digits) THEN ValueError
    ELSE [value |->
             (IF stripped[1] = "-" THEN -1 ELSE 1) * int_value(SelectSeq(digits, IsDigit))]

int_stripped(stripped) == int_signed(stripped, without_sign(stripped))

\* The whitespace int() skips around the number: the characters of
\* str.isspace but the separators 0x1c to 0x1f, which it takes for a part of
\* the number.
IntWhitespace == Whitespace \ {"", "", "", ""}

RECURSIVE without_spaces_around(_)
without_spaces_around(text) ==
    IF Len(text) = 0 THEN text
    ELSE IF text[1] \in IntWhitespace THEN without_spaces_around(Tail(text))
    ELSE IF text[Len(text)] \in IntWhitespace
    THEN without_spaces_around(SubSeq(text, 1, Len(text) - 1))
    ELSE text

\* int(text): [value |-> n], or a ValueError
int(text) == int_stripped(without_spaces_around(text))

NonZeroDigits == {"1", "2", "3", "4", "5", "6", "7", "8", "9"}

\* "(?P<m>1[0-2]|0[1-9]|[1-9])" at text[i]: the length of the longest match
month_length(text, i) ==
    IF /\ i < Len(text)
       /\ \/ text[i] = "1" /\ text[i + 1] \in {"0", "1", "2"}
          \/ text[i] = "0" /\ text[i + 1] \in NonZeroDigits
    THEN 2
    ELSE IF i <= Len(text) /\ text[i] \in NonZeroDigits THEN 1
    ELSE 0

\* "(?P<d>3[0-1]|[1-2]\d|0[1-9]|[1-9]| [1-9])" at text[i]
day_length(text, i) ==
    IF /\ i < Len(text)
       /\ \/ text[i] = "3" /\ text[i + 1] \in {"0", "1"}
          \/ text[i] \in {"1", "2"} /\ IsDigit(text[i + 1])
          \/ text[i] \in {"0", " "} /\ text[i + 1] \in NonZeroDigits
    THEN 2
    ELSE IF i <= Len(text) /\ text[i] \in NonZeroDigits THEN 1
    ELSE 0

\* "(?P<H>2[0-3]|[0-1]\d|\d)" at text[i]
hour_length(text, i) ==
    IF /\ i < Len(text)
       /\ \/ text[i] = "2" /\ text[i + 1] \in {"0", "1", "2", "3"}
          \/ text[i] \in {"0", "1"} /\ IsDigit(text[i + 1])
    THEN 2
    ELSE IF i <= Len(text) /\ IsDigit(text[i]) THEN 1
    ELSE 0

\* "(?P<M>[0-5]\d|\d)" at text[i]
minute_length(text, i) ==
    IF /\ i < Len(text)
       /\ text[i] \in {"0", "1", "2", "3", "4", "5"}
       /\ IsDigit(text[i + 1])
    THEN 2
    ELSE IF i <= Len(text) /\ IsDigit(text[i]) THEN 1
    ELSE 0

\* The length of the match of a field before the character that follows it
\* in the format: a match of two characters, or else of one.
before(text, i, longest, char) ==
    IF longest = 2 /\ CharAt(text, i + 2, {char}) THEN 2
    ELSE IF longest >= 1 /\ CharAt(text, i + 1, {char}) /\ text[i] # " " THEN 1
    ELSE 0

\* datetime.datetime.strptime(text, "%Y-%m-%d").date(): a ValueError unless
\* the whole text matches and is a day of the calendar
\* ".date()" of the datetime made of the fields matched
date_of(made) == IF IsExc(made) THEN ValueError ELSE as_date(made)

\* The date of a text whose month is matched by month characters.
date_after_month(text, month) ==
    IF \/ ~IsDigits(text, 1, 4)
       \/ ~CharAt(text, 5, {"-"})
       \/ month = 0
       \/ day_length(text, 7 + month) = 0
       \/ 6 + month + day_length(text, 7 + month) # Len(text)
    THEN ValueError
    ELSE date_of(datetime(int_value(SubSeq(text, 1, 4)),
                          int_value(SubSeq(text, 6, 5 + month)),
                          int(SubSeq(text, 7 + month, Len(text))).value))

strptime_date(text) == date_after_month(text, before(text, 6, month_length(text, 6), "-"))

\* datetime.datetime.strptime(text, "%H:%M").time(): [hour, minute], or a
\* ValueError
time_after_hour(text, hour) ==
    IF \/ hour = 0
       \/ minute_length(text, 2 + hour) = 0
       \/ 1 + hour + minute_length(text, 2 + hour) # Len(text)
    THEN ValueError
    ELSE [hour |-> int_value(SubSeq(text, 1, hour)),
          minute |-> int_value(SubSeq(text, 2 + hour, Len(text)))]

strptime_time(text) == time_after_hour(text, before(text, 1, hour_length(text, 1), ":"))

\* "{child.tag: child.text for child in element if child.text}" and
\* "data.get(tag, default)": the text of the last child with the tag that has
\* a text
has_child(element, tag) ==
    \E i \in 1 .. Len(element) : element[i].tag = tag /\ element[i].text # <<>>

get(element, tag, default) ==
    IF ~has_child(element, tag) THEN default
    ELSE element[CHOOSE i \in 1 .. Len(element) :
                     /\ element[i].tag = tag
                     /\ element[i].text # <<>>
                     /\ \A j \in (i + 1) .. Len(element) :
                            ~(element[j].tag = tag /\ element[j].text # <<>>)].text

\* "-1", the default of an id that the element does not give
minus_one == <<"-", "1">>

\* "data["date"] = datetime.datetime.strptime(data["date"], "%Y-%m-%d").date()"
\* and "data.get("date", DEFAULT_DATE.date())"
element_date(element, tag) ==
    IF has_child(element, tag) THEN strptime_date(get(element, tag, <<>>))
    ELSE DEFAULT_DAY

\* "datetime.datetime.combine(data["date"], time)"
make_time(date, time) ==
    IF IsExc(date) \/ IsExc(time) THEN ValueError
    ELSE combine(date, time.hour, time.minute)

\* make_time and "data.get(key, DEFAULT_DATE)"; date is the date parsed before
element_time(element, key, date) ==
    IF ~has_child(element, key) THEN DEFAULT_DATE
    ELSE make_time(date, strptime_time(get(element, key, <<>>)))

\* A call that raises before it constructs an object.
raising(st, exception) == [st EXCEPT !.ref = NoRef, !.raised = exception]

\* "Task(**data)" once the element's date and numbers are read
Task_of_data(st, element, date, times, ids) ==
    IF \/ IsExc(date)
       \/ IsExc(times.initTime)
       \/ IsExc(times.endTime)
       \/ IsExc(ids.id)
       \/ IsExc(ids.userId)
       \/ IsExc(ids.projectId)
    THEN raising(st, "ValueError")
    ELSE new_Task(st,
             [task_fields(ids.id.value, ids.userId.value, ids.projectId.value,
                          date, times.initTime, times.endTime,
                          get(element, "onsite", <<>>) = <<"t", "r", "u", "e">>)
                 EXCEPT !.ttype = get(element, "ttype", <<>>),
                        !.story = get(element, "story", <<>>),
                        !.text = get(element, "text", <<>>),
                        !.phase = get(element, "phase", <<>>),
                        !.telework = get(element, "telework", <<>>) = <<"t", "r", "u", "e">>])

\* The times of a task's element on the date of the element.
Task_of_dated(st, element, date) ==
    Task_of_data(st, element, date,
                 [key \in {"initTime", "endTime"} |-> element_time(element, key, date)],
                 [key \in {"id", "userId", "projectId"} |->
                     int(get(element, key, minus_one))])

\* Task.from_element
Task_from_element(st, element) == Task_of_dated(st, element, element_date(element, "date"))

\* "for child in project_xml: if child.text and child.tag in ("init", "end"):
\*  data[child.tag] = datetime.datetime.strptime(child.text, "%Y-%m-%d").date()":
\* every such child is parsed, the last one of a tag is the one kept.
a_date_fails(element) ==
    \E i \in 1 .. Len(element) :
        /\ element[i].tag \in {"init", "end"}
        /\ element[i].text # <<>>
        /\ IsExc(strptime_date(element[i].text))

\* "Project(**data)" once the element's numbers are read
Project_of_data(st, element, ids) ==
    IF a_date_fails(element) \/ IsExc(ids.id) \/ IsExc(ids.customerId)
    THEN raising(st, "ValueError")
    ELSE new_Project_dated(st, ids.id.value,
                           get(element, "description", no_description),
                           ids.customerId.value,
                           element_date(element, "init"), element_date(element, "end"))

\* Project.from_element
Project_from_element(st, element) ==
    Project_of_data(st, element,
                    [key \in {"id", "customerId"} |-> int(get(element, key, minus_one))])

\* "User(**data)" once the element's id is read
User_of_data(st, element, id) ==
    IF IsExc(id) THEN raising(st, "ValueError")
    ELSE new_User(st, id.value, get(element, "login", minus_one))

\* User.from_element
User_from_element(st, element) ==
    User_of_data(st, element, int(get(element, "id", minus_one)))

\* "Customer(**data)" once the element's id is read
Customer_of_data(st, element, id) ==
    IF IsExc(id) THEN raising(st, "ValueError")
    ELSE new_Customer(st, id.value, get(element, "name", minus_one))

\* Customer.from_element
Customer_from_element(st, element) ==
    Customer_of_data(st, element, int(get(element, "id", minus_one)))

\* cls.from_element(child)
from_element(st, cls, element) ==
    IF cls = "Task" THEN Task_from_element(st, element)
    ELSE IF cls = "Project" THEN Project_from_element(st, element)
    ELSE IF cls = "User" THEN User_from_element(st, element)
    ELSE Customer_from_element(st, element)

\* PHPReport.create_objects_from_response: "[cls.from_element(child) for child
\* in element if child.tag == tag]" from the i-th child on.  The outcome is the
\* registry state and the objects made; an element that raises ends the call.
RECURSIVE objects_from_children(_, _, _, _, _, _)
object_from_child(made_st, response, cls, tag, i, made) ==
    IF made_st.raised # "" THEN [st |-> made_st, returned |-> made]
    ELSE objects_from_children(made_st, response, cls, tag, i + 1,
                               Append(made, made_st.ref))

objects_from_children(st, response, cls, tag, i, made) ==
    IF i > Len(response) THEN [st |-> st, returned |-> made]
    ELSE IF response[i].tag # tag
    THEN objects_from_children(st, response, cls, tag, i + 1, made)
    ELSE object_from_child(from_element(st, cls, response[i].children),
                           response, cls, tag, i, made)

create_objects_from_response(st, response, cls, tag) ==
    objects_from_children(st, response, cls, tag, 1, <<>>)

\* The tasks as the report code reads them.
tasks_of(st, objs) == [k \in 1 .. Len(objs) |-> task_of(st, objs[k])]

\* PHPReport.get_tasks_for_task_filter; contents is what the server answers
\* for the filter's URL
get_tasks_for_task_filter(st, task_filter, contents) ==
    create_objects_from_response(st, contents, "Task", "task")

\* "[cls.create_objects_from_response(x, Task, "task") for x in responses]"
\* from the i-th response on
RECURSIVE tasks_from_responses(_, _, _, _)
tasks_from_response(made, responses, i, lists) ==
    IF made.st.raised # "" THEN [st |-> made.st, returned |-> lists]
    ELSE tasks_from_responses(made.st, responses, i + 1, Append(lists, made.returned))

tasks_from_responses(st, responses, i, lists) ==
    IF i > Len(responses) THEN [st |-> st, returned |-> lists]
    ELSE tasks_from_response(
             create_objects_from_response(st, responses[i], "Task", "task"),
             responses, i, lists)

\* PHPReport.get_tasks_for_task_filters; responses is what fetch_urls_in_parallel
\* returns for the filters' URLs.  The outcome is the registry state and the
\* lists of Task objects made.
get_tasks_for_task_filters(st, task_filters, responses) ==
    tasks_from_responses(st, responses, 1, <<>>)

\* "for child in tree: if child.tag == "sessionId": cls.session_id = child.text":
\* the text of the last such child, None when there is none.  An element
\* without text has the text <<>>.
session_id_of(tree) ==
    IF \A i \in 1 .. Len(tree) : tree[i].tag # "sessionId" THEN None
    ELSE [value |->
             tree[CHOOSE i \in 1 .. Len(tree) :
                      /\ tree[i].tag = "sessionId"
                      /\ \A j \in (i + 1) .. Len(tree) : tree[j].tag # "sessionId"].text]

\* "if not cls.session_id: ... sys.exit(1)"
no_session_id(session_id) ==
    IF session_id = None THEN TRUE ELSE session_id.value = <<>>

\* "cls.create_objects_from_response(responses[2], Customer, "customer")" and
\* the two calls after it: the objects of the i-th load on, up to one that
\* raises.
RECURSIVE objects_from_responses(_, _, _)
objects_from_responses(st, loads, i) ==
    IF i > Len(loads) \/ st.raised # "" THEN st
    ELSE objects_from_responses(
             create_objects_from_response(st, loads[i].response, loads[i].cls,
                                          loads[i].tag).st,
             loads, i + 1)

\* PHPReport.login from the answer to the login request on: response is that
\* answer, responses are the answers for the projects, the users and the
\* customers.  The outcome is the registry state; SystemExit without a
\* session id.
login(st, response, responses) ==
    IF no_session_id(session_id_of(response)) THEN raising(st, "SystemExit")
    ELSE objects_from_responses(
             st,
             <<[response |-> responses[3], cls |-> "Customer", tag |-> "customer"],
               [response |-> responses[2], cls |-> "User", tag |-> "user"],
               [response |-> responses[1], cls |-> "Project", tag |-> "project"]>>,
             1)

\* The registry as the state holds it.
Registry == [heap |-> heap, instances |-> instances, ref |-> NoRef, raised |-> ""]


(***************************************************************************)
(* PeriodOfWork's operations and WeekOfWork.create_for_entire_project      *)
(* (report_creator.py).  An optional integer argument is None or           *)
(* [value |-> n].                                                          *)
(***************************************************************************)
AssertionError == [exc |-> "AssertionError"]
CouldNotAssign == [exc |-> "Exception: Could not assign task to week."]

Some(n) == [value |-> n]

get_users(self) == self.users

\* A variant of add_task that forgets the user.
add_task_without_user(self, task) ==
    IF self.tasks = None THEN AttributeError
    ELSE [self EXCEPT !.tasks = list(Append(self.tasks.items, task))]

\* "self.tasks.append(task); self.users.add(task.user)": None has no append
add_task(self, task) ==
    IF self.tasks = None THEN AttributeError
    ELSE [self EXCEPT !.tasks = list(Append(self.tasks.items, task)),
                      !.users = @ \cup {task.user}]

\* "for task in tasks: self.add_task(task)"
RECURSIVE add_tasks(_, _, _)
add_tasks(self, tasks, i) ==
    IF IsExc(self) \/ i > Len(tasks) THEN self
    ELSE add_tasks(add_task(self, tasks[i]), tasks, i + 1)

\* "self.tasks = []" and the loop: self.users is left as it was
set_tasks(self, tasks) == add_tasks([self EXCEPT !.tasks = list(<<>>)], tasks, 1)

\* A variant of starts_in_period whose window is closed at the end.
starts_in_period_closed(self, task, ending_date) ==
    IF IsExc(ending_date) THEN ending_date
    ELSE IF not_comparable(task.date, self.start_date) THEN TypeError
    ELSE IF date_lt(task.date, self.start_date) THEN [added |-> FALSE]
    ELSE IF date_lt(ending_date, task.date) THEN [added |-> FALSE]
    ELSE [added |-> TRUE]

\* "if task.date < self.start_date: return False
\*  if task.date >= ending_date: return False": a date does not compare with a
\* datetime
starts_in_period(self, task, ending_date) ==
    IF IsExc(ending_date) THEN ending_date
    ELSE IF not_comparable(task.date, self.start_date) THEN TypeError
    ELSE IF date_lt(task.date, self.start_date) THEN [added |-> FALSE]
    ELSE IF not_comparable(task.date, ending_date) THEN TypeError
    ELSE IF date_le(ending_date, task.date) THEN [added |-> FALSE]
    ELSE [added |-> TRUE]

\* the end of add_task_if_starts_in_period, once the comparisons are made
added_if(self, task, starts) ==
    IF IsExc(starts) THEN starts
    ELSE IF starts.added
         THEN IF IsExc(add_task(self, task)) THEN add_task(self, task)
              ELSE [added |-> TRUE, period |-> add_task(self, task)]
    ELSE [added |-> FALSE, period |-> self]

add_task_if_starts_in_period(self, task) ==
    added_if(self, task,
             starts_in_period(self, task,
                              from_date_offset(self.start_date, self.num_days)))

\* "if date is None and day_offset is not None:
\*      date = DateUtils.from_date_offset(self.start_date, day_offset)"
filter_date(self, date, day_offset) ==
    IF date = None /\ day_offset # None
    THEN from_date_offset(self.start_date, day_offset.value)
    ELSE date

same_date(date_a, date_b) ==
    date_a.year = date_b.year /\ date_a.month = date_b.month /\ date_a.day = date_b.day

\* the closure filter_task of filter_tasks
filter_task(task, date, user, only_onsite) ==
    IF user # None /\ task.user # user THEN FALSE
    ELSE IF date # None /\ ~same_date(task.date, date) THEN FALSE
    ELSE IF only_onsite /\ ~task.onsite THEN FALSE
    ELSE TRUE

\* "list(filter(filter_task, self.tasks))"
RECURSIVE filtered(_, _, _, _, _)
filtered(tasks, i, date, user, only_onsite) ==
    IF i > Len(tasks) THEN <<>>
    ELSE (IF filter_task(tasks[i], date, user, only_onsite) THEN <<tasks[i]>> ELSE <<>>)
         \o filtered(tasks, i + 1, date, user, only_onsite)

\* filter_tasks once the date is settled: None is not iterable
filter_tasks_on(self, date, user, only_onsite) ==
    IF date # None /\ IsExc(date) THEN date
    ELSE IF self.tasks = None THEN TypeError
    ELSE list(filtered(self.tasks.items, 1, date, user, only_onsite))

filter_tasks(self, date, day_offset, user, only_onsite) ==
    filter_tasks_on(self, filter_date(self, date, day_offset), user, only_onsite)

\* "sum([task.length() for task in ...], datetime.timedelta())"
RECURSIVE sum_of_lengths(_, _, _)
sum_of_lengths(tasks, i, total) ==
    IF i > Len(tasks) THEN total
    ELSE sum_of_lengths(tasks, i + 1, timedelta_add(total, length(tasks[i])))

total_length(tasks) ==
    IF IsExc(tasks) THEN tasks ELSE sum_of_lengths(tasks.items, 1, timedelta(0, 0))

time_worked(self, date, day_offset, user, only_onsite) ==
    total_length(filter_tasks(self, date, day_offset, user, only_onsite))

\* "[DateUtils.from_date_offset(self.start_date, offset)
\*   for offset in range(0, self.num_days)]"
get_all_dates(self) ==
    [offset \in 1 .. self.num_days |-> from_date_offset(self.start_date, offset - 1)]

\* "first_date = last_date = tasks[0].date" and the loop over tasks[1:]: the
\* comparisons raise TypeError between a date and a datetime
RECURSIVE date_extent(_, _, _)
date_extent(tasks, i, extent) ==
    IF i > Len(tasks) THEN extent
    ELSE IF not_comparable(tasks[i].date, extent.first_date) THEN TypeError
    ELSE date_extent(tasks, i + 1,
             [first_date |-> IF date_lt(tasks[i].date, extent.first_date)
                             THEN tasks[i].date ELSE extent.first_date,
              last_date |-> IF date_lt(extent.last_date, tasks[i].date)
                            THEN tasks[i].date ELSE extent.last_date])

\* the closure add_task_to_weeks: the first week that takes the task
RECURSIVE add_task_to_weeks(_, _, _)
RECURSIVE added_or_next_week(_, _, _, _)
added_or_next_week(weeks, i, task, outcome) ==
    IF IsExc(outcome) THEN outcome
    ELSE IF outcome.added THEN list([weeks EXCEPT ![i] = outcome.period])
    ELSE add_task_to_weeks(weeks, i + 1, task)

add_task_to_weeks(weeks, i, task) ==
    IF i > Len(weeks) THEN CouldNotAssign
    ELSE added_or_next_week(weeks, i, task, add_task_if_starts_in_period(weeks[i], task))

\* "for task in tasks: add_task_to_weeks(task)"
RECURSIVE add_all_tasks_to_weeks(_, _, _)
add_all_tasks_to_weeks(weeks, tasks, i) ==
    IF IsExc(weeks) \/ i > Len(tasks) THEN weeks
    ELSE add_all_tasks_to_weeks(add_task_to_weeks(weeks.items, 1, tasks[i]), tasks, i + 1)

\* create_for_entire_project from the building of the weeks on
weeks_for_extent(extent, task_filter, tasks) ==
    IF IsExc(extent) THEN extent
    ELSE add_all_tasks_to_weeks(
             create_array_of_weeks_between_dates(extent.first_date, extent.last_date,
                                                 task_filter),
             tasks, 1)

\* create_for_entire_project from "if not tasks" on; tasks is the flattened
\* list of the tasks fetched
weeks_for_tasks(task_filter, tasks) ==
    IF tasks = <<>> THEN list(<<>>)
    ELSE weeks_for_extent(
             date_extent(tasks, 2, [first_date |-> tasks[1].date,
                                    last_date |-> tasks[1].date]),
             task_filter, tasks)

\* "[item for sublist in tasks for item in sublist]"
RECURSIVE flattened(_, _)
flattened(lists, i) ==
    IF i > Len(lists) THEN <<>> ELSE lists[i] \o flattened(lists, i + 1)

\* create_for_entire_project once get_tasks_for_task_filters has returned or
\* raised
weeks_of_fetched(fetched, task_filter) ==
    [st |-> fetched.st,
     returned |-> IF fetched.st.raised # "" THEN [exc |-> fetched.st.raised]
                  ELSE weeks_for_tasks(task_filter,
                                       tasks_of(fetched.st, flattened(fetched.returned, 1)))]

\* WeekOfWork.create_for_entire_project; responses is what the server answers.
\* The outcome is the registry state and the weeks returned, or the exception
\* raised.
create_for_entire_project(st, task_filter, responses) ==
    IF task_filter.scope.project = None THEN [st |-> st, returned |-> AssertionError]
    ELSE weeks_of_fetched(get_tasks_for_task_filters(st, <<task_filter>>, responses),
                          task_filter)

(***************************************************************************)
(* Calls of get_weeks_in_date_range and create_array_of_weeks_between_dates *)
(* on date pairs start <= end drawn in the initial state, as datetime.date  *)
(* or as datetime.datetime values.                                          *)
(***************************************************************************)
\* The pairs start in the years FirstSpanYear .. FirstSpanYear + NumSpanYears - 1
\* and end 0 .. MaxSpan days later.
FirstSpanYear == 2015
NumSpanYears == 6
MaxSpan == 15

SpanYears == FirstSpanYear .. (FirstSpanYear + NumSpanYears - 1)

SpanStarts ==
    {d \in [year : SpanYears, month : 1 .. 12, day : 1 .. 31] :
        d.day <= days_in_month(d.year, d.month)}

\* The text of a date as the server writes it, "%Y-%m-%d", and of a time,
\* "%H:%M".
two_digits(n) == IF n < 10 THEN <<"0">> \o Dec(n) ELSE Dec(n)

date_text(date) ==
    Dec(date.year) \o <<"-">> \o two_digits(date.month) \o <<"-">> \o two_digits(date.day)

time_text(hour, minute) == two_digits(hour) \o <<":">> \o two_digits(minute)

\* A child of the root of a response: an object's element under its tag.
Child(tag, children) == [tag |-> tag, children |-> children]

\* A child of an object's element: a tag with its text.
Field(tag, text) == [tag |-> tag, text |-> text]

\* What the server of the unit tests answers at login: the session id, two
\* projects of which the second has ended, two users and a customer.
LoginResponse == <<Field("sessionId", <<"s", "1">>)>>

LoginResponses ==
    <<<<Child("project",
              <<Field("id", Dec(230)), Field("description", VeryCool),
                Field("customerId", Dec(99)),
                Field("init", date_text([year |-> 2016, month |-> 9, day |-> 29])),
                Field("end", date_text([year |-> 2018, month |-> 2, day |-> 13]))>>),
        Child("project",
              <<Field("id", Dec(231)), Field("description", VeryOld),
                Field("customerId", Dec(99)),
                Field("init", date_text([year |-> 2017, month |-> 1, day |-> 1])),
                Field("end", date_text([year |-> 2017, month |-> 6, day |-> 30]))>>)>>,
      <<Child("user", <<Field("id", Dec(22)), Field("login", TestUser),
                        Field("userGroups", <<>>)>>),
        Child("user", <<Field("id", Dec(23)), Field("login", OtherUser)>>)>>,
      <<Child("customer", <<Field("id", Dec(99)), Field("name", CustomEr)>>)>>>>

\* The registry after PHPReport.login loaded the customers, users and projects.
LoadedRegistry == login(EmptyRegistry, LoginResponse, LoginResponses)

\* The project "Very cool", registered by login.
VeryCoolProject == LoadedRegistry.heap[LoadedRegistry.instances["Project"][230]]

\* A task filter with a project for scope.
ProjectScope ==
    [project |-> VeryCoolProject, customer |-> None, user |-> None, task_type |-> None]

typed(date, date_only) == IF date_only THEN as_date(date) ELSE date

SpanArg(start, span, date_only) ==
    [kind |-> "span",
     start |-> typed(start, date_only),
     end |-> typed(date_add(start, span), date_only),
     task_filter |-> TaskFilter(ProjectScope)]

InitWeeks ==
    /\ pc = "call"
    /\ \E start \in SpanStarts, span \in 0 .. MaxSpan, date_only \in BOOLEAN :
           arg = SpanArg(start, span, date_only)
    /\ res = None
    /\ prev = None
    /\ NoObjects

WeeksBetweenDatesCall ==
    /\ pc = "call"
    /\ arg.kind = "span"
    /\ res' = [week_dates |-> get_weeks_in_date_range(arg.start, arg.end),
               weeks |-> create_array_of_weeks_between_dates(arg.start, arg.end,
                                                             arg.task_filter)]
    /\ pc' = "done"
    /\ UNCHANGED <<arg, prev>>
    /\ UNCHANGED objects

NextWeeks == WeeksBetweenDatesCall

SpecWeeks == InitWeeks /\ [][NextWeeks]_vars

(***************************************************************************)
(* Calls of WeekOfWork.create_for_entire_project in the registry that      *)
(* login left, with the server's answer to the fetch drawn in the initial  *)
(* state: up to MaxTasks tasks of the project.                             *)
(***************************************************************************)
\* The tasks' dates: the last DaysAround days of FirstProjectYear and the first
\* DaysAround days of the next year; at most MaxTasks tasks.
FirstProjectYear == 2015
DaysAround == 11
MaxTasks == 3

ProjectDates ==
    {date_add([year |-> FirstProjectYear, month |-> 12, day |-> 31], k) :
        k \in (1 - DaysAround) .. DaysAround}

\* The Task that Task(...) constructs in the loaded registry.
constructed_task(fields) ==
    task_of(new_Task(LoadedRegistry, fields), Len(LoadedRegistry.heap) + 1)

\* The i-th task of a fetch: tasks differ by id, two users take turns, every
\* task lasts from 9:00 to 10:00.
FetchedTask(i, date, date_only) ==
    constructed_task(task_fields(200290 + i, 22 + (i % 2), 230, typed(date, date_only),
                                 combine(date, 9, 0), combine(date, 10, 0), FALSE))

RECURSIVE FetchedTasks(_, _, _)
FetchedTasks(dates, i, date_only) ==
    IF i > Len(dates) THEN <<>>
    ELSE <<FetchedTask(i, dates[i], date_only)>> \o FetchedTasks(dates, i + 1, date_only)

\* The element of the i-th task as the server answers it.
FetchedElement(i, date) ==
    <<Field("id", Dec(200290 + i)),
      Field("date", date_text(date)),
      Field("initTime", time_text(9, 0)),
      Field("endTime", time_text(10, 0)),
      Field("userId", Dec(22 + (i % 2))),
      Field("projectId", Dec(230)),
      Field("onsite", <<"f", "a", "l", "s", "e">>)>>

\* The response with a task for each of the dates.
FetchedResponse(dates) == [i \in 1 .. Len(dates) |-> Child("task", FetchedElement(i, dates[i]))]

DateLists == UNION {[1 .. n -> ProjectDates] : n \in 0 .. MaxTasks}

\* The registry is as login left it; no period is under test.
Loaded ==
    /\ heap = LoadedRegistry.heap
    /\ instances = LoadedRegistry.instances
    /\ period = None

\* The state takes over the registry a call left, and what it returned or
\* raised.
Outcome(out) ==
    /\ heap' = out.st.heap
    /\ instances' = out.st.instances
    /\ res' = out.returned

\* arg.tasks are the tasks of the response as Task.from_element makes them.
InitProject ==
    /\ pc = "call"
    /\ \E dates \in DateLists :
           arg = [kind |-> "project",
                  dates |-> dates,
                  tasks |-> FetchedTasks(dates, 1, TRUE),
                  responses |-> <<FetchedResponse(dates)>>,
                  task_filter |-> TaskFilter(ProjectScope)]
    /\ res = None
    /\ prev = None
    /\ Loaded

CreateForEntireProjectCall ==
    /\ pc = "call"
    /\ arg.kind = "project"
    /\ Outcome(create_for_entire_project(Registry, arg.task_filter, arg.responses))
    /\ pc' = "done"
    /\ UNCHANGED <<arg, prev, period>>

NextProject == CreateForEntireProjectCall

SpecProject == InitProject /\ [][NextProject]_vars

(***************************************************************************)
(* Constructions of one Task in an empty registry: Task() with every field *)
(* at its default, or a task as Task.from_element builds it, its initTime  *)
(* and endTime combined with its date.                                     *)
(***************************************************************************)
\* The minutes of the times: the multiples of MinuteStep below 60.
MinuteStep == 15

TimesOfDay == {hm \in (0 .. 23) \X (0 .. 59) : hm[2] % MinuteStep = 0}

\* The date of the unit test's task, 2023-02-17.
TaskDate == [year |-> 2023, month |-> 2, day |-> 17]

TaskArgs ==
    {[kind |-> "task", default |-> FALSE, init |-> i, end |-> e] :
        i \in TimesOfDay, e \in TimesOfDay}
    \cup {[kind |-> "task", default |-> TRUE, init |-> <<0, 0>>, end |-> <<0, 0>>]}

\* The fields the call of the constructor gives.
ArgTaskFields ==
    IF arg.default THEN default_task_fields
    ELSE task_fields(200291, -1, -1, as_date(TaskDate),
                     combine(TaskDate, arg.init[1], arg.init[2]),
                     combine(TaskDate, arg.end[1], arg.end[2]), TRUE)

\* The state takes over the registry a call left, and the call's outcome.
Returned(st) ==
    /\ heap' = st.heap
    /\ instances' = st.instances
    /\ res' = [ref |-> st.ref, raised |-> st.raised]

InitTask ==
    /\ pc = "call"
    /\ arg \in TaskArgs
    /\ res = None
    /\ prev = None
    /\ NoObjects

TaskCall ==
    /\ pc = "call"
    /\ arg.kind = "task"
    /\ Returned(new_Task(Registry, ArgTaskFields))
    /\ pc' = "done"
    /\ UNCHANGED <<arg, prev, period>>

NextTask == TaskCall

SpecTask == InitTask /\ [][NextTask]_vars

(***************************************************************************)
(* Sequences of constructions and look-ups on the identity registry.       *)
(***************************************************************************)
\* Objects, placeholders included, are constructed while the heap holds fewer
\* than MaxObjects objects.
MaxObjects == 3

\* The ids objects are constructed with (99 is the id of no object).
RegistryIds == {-1, 22}

Call(kind, cls, phpreport_id, user_id, project_id, customer_id) ==
    [kind |-> kind, cls |-> cls, phpreport_id |-> phpreport_id, user_id |-> user_id,
     project_id |-> project_id, customer_id |-> customer_id]

InitRegistry ==
    /\ pc = "run"
    /\ arg = Call("none", "", 0, 0, 0, 0)
    /\ res = [ref |-> NoRef, raised |-> ""]
    /\ prev = None
    /\ NoObjects

Called(call) ==
    /\ pc = "run"
    /\ arg' = call
    /\ UNCHANGED <<pc, prev, period>>

NewUserCall ==
    /\ Len(heap) < MaxObjects
    /\ \E id \in RegistryIds :
           /\ Called(Call("new", "User", id, 0, 0, 0))
           /\ Returned(new_User(Registry, id, IF id = -1 THEN unknown ELSE TestUser))

NewCustomerCall ==
    /\ Len(heap) < MaxObjects
    /\ \E id \in RegistryIds :
           /\ Called(Call("new", "Customer", id, 0, 0, 0))
           /\ Returned(new_Customer(Registry, id,
                                    IF id = -1 THEN unknown ELSE CustomEr))

NewProjectCall ==
    /\ Len(heap) < MaxObjects
    /\ \E id \in RegistryIds, customer_id \in RegistryIds :
           /\ Called(Call("new", "Project", id, 0, 0, customer_id))
           /\ Returned(new_Project(Registry, id,
                                   IF id = -1 THEN no_description ELSE VeryCool,
                                   customer_id))

NewTaskCall ==
    /\ Len(heap) < MaxObjects
    /\ \E id \in RegistryIds, user_id \in RegistryIds, project_id \in RegistryIds :
           /\ Called(Call("new", "Task", id, user_id, project_id, 0))
           /\ Returned(new_Task(Registry,
                                [default_task_fields EXCEPT !.phpreport_id = id,
                                                            !.user_id = user_id,
                                                            !.project_id = project_id]))

\* cls.find(phpreport_id)
find(st, cls, phpreport_id) ==
    IF cls = "User" THEN User_find(st, phpreport_id)
    ELSE IF cls = "Customer" THEN Customer_find(st, phpreport_id)
    ELSE IF cls = "Project" THEN Project_find(st, phpreport_id)
    ELSE Task_find(st, phpreport_id)

FindCall ==
    \E cls \in Classes, id \in RegistryIds \cup {99} :
        /\ needs_placeholder(Registry, cls, id) => Len(heap) < MaxObjects
        /\ Called(Call("find", cls, id, 0, 0, 0))
        /\ Returned(find(Registry, cls, id))

NextRegistry ==
    NewUserCall \/ NewCustomerCall \/ NewProjectCall \/ NewTaskCall \/ FindCall

SpecRegistry == InitRegistry /\ [][NextRegistry]_vars

(***************************************************************************)
(* A PeriodOfWork under its own operations: a week is constructed, then    *)
(* set_tasks, add_task, add_task_if_starts_in_period and time_worked are   *)
(* called in any order.  pc names the last call; res is what it returned   *)
(* or raised.                                                              *)
(***************************************************************************)
MaxPeriodTasks == 2

\* Week 7 of 2023, which starts on Monday 2023-02-13.
WeekUnderTest(tasks) == WeekOfWork(2023, 7, TaskFilter(ProjectScope), tasks)

PeriodStart == WeekUnderTest(None).start_date

PeriodUsers == {22, 23}

\* A task of user user_id on the day day_offset days after the week's Monday,
\* from 9:00 to 10:00, or to 0:00 on the week's last day.
WorkedTask(user_id, day_offset, onsite, date_only) ==
    constructed_task(
        task_fields(200300 + 4 * (day_offset + 1) + 2 * (user_id - 22)
                        + (IF onsite THEN 1 ELSE 0) + (IF date_only THEN 100 ELSE 0),
                    user_id, 230,
                    typed(date_add(PeriodStart, day_offset), date_only),
                    combine(date_add(PeriodStart, day_offset), 9, 0),
                    combine(date_add(PeriodStart, day_offset),
                            IF day_offset = 6 THEN 0 ELSE 10, 0),
                    onsite))

\* Two tasks on the first day of the week, of different users, one of them
\* onsite and dated as Task.from_element dates it (a datetime.date); a task on
\* the last day of the week; a task on the day before the week and a task on
\* the day after it.
PoolTasks ==
    {WorkedTask(22, 0, FALSE, FALSE),
     WorkedTask(23, 0, TRUE, TRUE),
     WorkedTask(22, 6, TRUE, FALSE),
     WorkedTask(23, -1, FALSE, FALSE),
     WorkedTask(23, 7, FALSE, FALSE)}

TaskLists == UNION {[1 .. n -> PoolTasks] : n \in 0 .. MaxPeriodTasks}

\* tasks=None (the default), tasks=[] or a list of one task
InitialTasks == {None, list(<<>>)} \cup {list(<<task>>) : task \in PoolTasks}

PoolUser(user_id) == WorkedTask(user_id, 0, FALSE, FALSE).user

FilterDates == {None, PeriodStart, as_date(date_add(PeriodStart, 6))}

FilterOffsets == {None, Some(0), Some(6)}

FilterUsers == {None} \cup {PoolUser(user_id) : user_id \in PeriodUsers}

InitPeriod ==
    /\ pc = "WeekOfWork"
    /\ arg = None
    /\ res = None
    /\ prev = None
    /\ heap = <<>>
    /\ instances = NoInstances
    /\ \E tasks \in InitialTasks : period = WeekUnderTest(tasks)

\* a call of a method that changes the period: what it raised, if it raised
Changed(changed) ==
    /\ arg' = None
    /\ res' = IF IsExc(changed) THEN changed ELSE None
    /\ period' = IF IsExc(changed) THEN period ELSE changed
    /\ UNCHANGED <<prev, heap, instances>>

SetTasksCall ==
    /\ pc' = "set_tasks"
    /\ \E tasks \in TaskLists : Changed(set_tasks(period, tasks))

AddTaskCall ==
    /\ period.tasks # None => Len(period.tasks.items) < MaxPeriodTasks
    /\ pc' = "add_task"
    /\ \E task \in PoolTasks : Changed(add_task(period, task))

\* add_task_if_starts_in_period returns True or False, or raises
StartsInPeriod(added) ==
    /\ pc' = "add_task_if_starts_in_period"
    /\ arg' = None
    /\ res' = IF IsExc(added) THEN added ELSE [added |-> added.added]
    /\ period' = IF IsExc(added) THEN period ELSE added.period
    /\ UNCHANGED <<prev, heap, instances>>

AddTaskIfStartsInPeriodCall ==
    /\ period.tasks # None => Len(period.tasks.items) < MaxPeriodTasks
    /\ \E task \in PoolTasks : StartsInPeriod(add_task_if_starts_in_period(period, task))

TimeWorkedCall ==
    /\ \E date \in FilterDates, day_offset \in FilterOffsets,
          user \in FilterUsers, only_onsite \in BOOLEAN :
           /\ arg' = [date |-> date, day_offset |-> day_offset,
                      user |-> user, only_onsite |-> only_onsite]
           /\ res' = time_worked(period, date, day_offset, user, only_onsite)
    /\ pc' = "time_worked"
    /\ UNCHANGED <<prev, heap, instances, period>>

NextPeriod ==
    \/ SetTasksCall
    \/ AddTaskCall
    \/ AddTaskIfStartsInPeriodCall
    \/ TimeWorkedCall

SpecPeriod == InitPeriod /\ [][NextPeriod]_vars

(***************************************************************************)
(* ReportCreator (report_creator.py) and the arguments it is made from     *)
(* (argument_parser.py).  An optional text (args.time, args.project, ...)  *)
(* is None or [value |-> text].                                            *)
(***************************************************************************)
MaxBusyWeeks == 2

\* the characters of [a-zA-Z0-9]
AlnumChars ==
    {"a", "b", "c", "d", "e", "f", "g", "h", "i", "j", "k", "l", "m",
     "n", "o", "p", "q", "r", "s", "t", "u", "v", "w", "x", "y", "z",
     "A", "B", "C", "D", "E", "F", "G", "H", "I", "J", "K", "L", "M",
     "N", "O", "P", "Q", "R", "S", "T", "U", "V", "W", "X", "Y", "Z",
     "0", "1", "2", "3", "4", "5", "6", "7", "8", "9"}

IsAlnum(char) == char \in AlnumChars

\* re.sub(r'[^a-zA-Z0-9]', '', text)
sub_non_alnum(text) == SelectSeq(text, IsAlnum)

\* WeekOfWork.__str__: "Week %i of %i" % (self.week, self.year)
WeekOfWork__str__(self) ==
    <<"W", "e", "e", "k", " ">> \o Dec(self.week) \o <<" ", "o", "f", " ">> \o Dec(self.year)

\* WeekOfWork.wiki_string: "Week%i-%i" % (self.week, self.year)
wiki_string(self) ==
    <<"W", "e", "e", "k">> \o Dec(self.week) \o <<"-">> \o Dec(self.year)

\* TaskFilter.__str__ raises when the filter has no project, no customer and
\* no user: "return self.user.login" with self.user None
TaskFilter__str__raises(self) ==
    self.scope.project = None /\ self.scope.customer = None /\ self.scope.user = None

TaskFilter__str__(self) ==
    IF self.scope.project # None THEN self.scope.project.description
    ELSE IF self.scope.customer # None THEN self.scope.customer.name
    ELSE self.scope.user.login

\* TextFormatter.__init__, which TwikiFormatter and MarkdownFormatter inherit
Formatter(cls) == [cls |-> cls, pieces |-> <<>>]

AggregateReport(time_periods, formatter, header, wiki) ==
    [cls |-> "AggregateReport",
     header |-> header,
     wiki_string |-> wiki,
     time_periods |-> time_periods,
     formatter |-> formatter,
     parent |-> None]

detailed_fields(time_period, parent, formatter, include_story, header, wiki) ==
    [cls |-> "DetailedReport",
     header |-> header,
     wiki_string |-> wiki,
     time_period |-> time_period,
     formatter |-> formatter,
     parent |-> parent,
     include_story |-> include_story,
     pieces |-> <<>>]

\* "{0} for {1}" and "{0}-{1}": a report without parent is named after its
\* period's filter
DetailedReport(time_period, parent, formatter, include_story) ==
    IF parent # None
    THEN detailed_fields(time_period, parent, formatter, include_story,
                         WeekOfWork__str__(time_period) \o <<" ", "f", "o", "r", " ">>
                             \o parent.header,
                         parent.wiki_string \o <<"-">> \o wiki_string(time_period))
    ELSE IF TaskFilter__str__raises(time_period.task_filter) THEN AttributeError
    ELSE detailed_fields(time_period, parent, formatter, include_story,
                         WeekOfWork__str__(time_period) \o <<" ", "f", "o", "r", " ">>
                             \o TaskFilter__str__(time_period.task_filter),
                         wiki_string(time_period))

\* "if not args.time": None and the empty text
no_time(time) == IF time = None THEN TRUE ELSE time.value = <<>>

SystemExit == [exc |-> "SystemExit"]
EOFError == [exc |-> "EOFError"]

\* ArgumentParser.parse from the parsed arguments on: sys.exit(1) unless a
\* project, a customer, a user or a task type is given, and unless a time or a
\* project is given
parse(args) ==
    IF no_time(args.project) /\ no_time(args.customer) /\ no_time(args.user)
           /\ no_time(args.task_type)
    THEN SystemExit
    ELSE IF no_time(args.time) /\ no_time(args.project) THEN SystemExit
    ELSE args

Capitals ==
    <<"A", "B", "C", "D", "E", "F", "G", "H", "I", "J", "K", "L", "M", "N",
     "O", "P", "Q", "R", "S", "T", "U", "V", "W", "X", "Y", "Z">>

SmallLetters ==
    <<"a", "b", "c", "d", "e", "f", "g", "h", "i", "j", "k", "l", "m", "n",
     "o", "p", "q", "r", "s", "t", "u", "v", "w", "x", "y", "z">>

\* The punctuation of ASCII.
Punctuation ==
    {"!", "\"", "#", "$", "%", "&", "'", "(", ")", "*", "+", ",", "-", ".",
     "/", ":", ";", "<", "=", ">", "?", "@", "[", "\\", "]", "^", "_", "U+0060",
     "{", "|", "}", "~"}

\* The characters of the model's texts that have no other lower case: of the
\* letters, the texts hold those of ASCII.
NotCapitals ==
    {SmallLetters[i] : i \in 1 .. 26} \cup Punctuation \cup Whitespace \cup UnicodeDigitSet

lower_char(char) ==
    CASE \E i \in 1 .. 26 : Capitals[i] = char ->
             SmallLetters[CHOOSE i \in 1 .. 26 : Capitals[i] = char]
      [] char \in NotCapitals -> char

\* str.lower()
lower(text) == [i \in 1 .. Len(text) |-> lower_char(text[i])]

\* str.split(sep), sep a character
RECURSIVE split(_, _)
split_at(text, sep, i) ==
    <<SubSeq(text, 1, i - 1)>> \o split(SubSeq(text, i + 1, Len(text)), sep)

split(text, sep) ==
    IF \A i \in 1 .. Len(text) : text[i] # sep THEN <<text>>
    ELSE split_at(text, sep,
                  CHOOSE i \in 1 .. Len(text) :
                      text[i] = sep /\ \A j \in 1 .. (i - 1) : text[j] # sep)

\* "text.find(term) != -1"
contains(text, term) ==
    \E i \in 0 .. (Len(text) - Len(term)) : SubSeq(text, i + 1, i + Len(term)) = term

\* Project.match, Customer.match and User.match
match(self, term) ==
    contains(lower(IF self.cls = "Project" THEN self.description
                   ELSE IF self.cls = "Customer" THEN self.name
                   ELSE self.login),
             term)

\* the closure matches_all of filter_instances
matches_all(instance, terms) == \A i \in 1 .. Len(terms) : match(instance, terms[i])

RECURSIVE matching(_, _, _)
matching(objs, terms, i) ==
    IF i > Len(objs) THEN <<>>
    ELSE (IF matches_all(objs[i], terms) THEN <<objs[i]>> ELSE <<>>)
         \o matching(objs, terms, i + 1)

\* the closure filter_instances of to_task_filter
filter_instances(objs, search_string) ==
    matching(objs, split(lower(search_string), ","), 1)

\* "list(cls.all())", the objects themselves
list_all(st, cls) == [k \in 1 .. Len(all(st, cls)) |-> st.heap[all(st, cls)[k]]]

\* Project.has_ended: "self.end_date and self.end_date < datetime.date.today()"
has_ended(self, today) == date_lt(self.end_date, today)

\* Project.__lt__; the dates of a project are never false, so that the
\* phpreport_ids are not compared
Project__lt__(self, other, today) ==
    IF has_ended(self, today) /\ ~has_ended(other, today) THEN TRUE
    ELSE IF has_ended(other, today) /\ ~has_ended(self, today) THEN FALSE
    ELSE date_lt(self.init_date, other.init_date)

\* The place of projects[i] once sorted: after the greater projects and after
\* the projects before it that are neither less nor greater.
place_reversed(projects, i, today) ==
    1 + Cardinality({j \in 1 .. Len(projects) :
                        \/ Project__lt__(projects[i], projects[j], today)
                        \/ /\ j < i
                           /\ ~Project__lt__(projects[j], projects[i], today)})

\* "projects.sort(reverse=True)"
sort_reversed(projects, today) ==
    [k \in 1 .. Len(projects) |->
        projects[CHOOSE i \in 1 .. Len(projects) : place_reversed(projects, i, today) = k]]

\* "0 <= index < len(items)", false when int() raised ValueError
valid_index(index, items) ==
    IF IsExc(index) THEN FALSE ELSE 0 <= index.value /\ index.value < Len(items)

\* choose_from_list: "assert len(items) > 1", then the loop over the lines that
\* input() reads one after the other; EOFError is what input() raises when
\* there is none left.  The outcome is the item chosen and the lines not read.
\* The items are the same in every turn of the loop, so that the assertion
\* decides the same in each.
RECURSIVE choose_from_list(_, _)
choose_from_list(items, answers) ==
    IF Len(items) <= 1 THEN [returned |-> AssertionError, answers |-> answers]
    ELSE IF answers = <<>> THEN [returned |-> EOFError, answers |-> answers]
    ELSE IF valid_index(int(answers[1]), items)
    THEN [returned |-> items[int(answers[1]).value + 1], answers |-> Tail(answers)]
    ELSE choose_from_list(items, Tail(answers))

\* "if not xs: sys.exit(1) / elif len(xs) > 1: x = choose_from_list(xs) /
\* else: x = xs[0]"
one_of(items, answers) ==
    IF items = <<>> THEN [returned |-> SystemExit, answers |-> answers]
    ELSE IF Len(items) > 1 THEN choose_from_list(items, answers)
    ELSE [returned |-> items[1], answers |-> answers]

\* to_task_filter before a search string is looked at: what is chosen so far,
\* the lines not read and the exception raised
nothing_chosen(args, answers) ==
    [scope |-> [project |-> None, customer |-> None, user |-> None,
                task_type |-> args.task_type],
     answers |-> answers,
     raised |-> None]

chosen(choice, name, picked) ==
    IF IsExc(picked.returned)
    THEN [choice EXCEPT !.raised = picked.returned, !.answers = picked.answers]
    ELSE [choice EXCEPT !.scope[name] = picked.returned, !.answers = picked.answers]

\* "if len(projects) > 1: projects.sort(reverse=True)"
sorted_if_several(projects, today) ==
    IF Len(projects) > 1 THEN sort_reversed(projects, today) ELSE projects

\* "if self.project is not None: ..."
with_chosen_project(st, args, today, choice) ==
    IF args.project = None THEN choice
    ELSE chosen(choice, "project",
                one_of(sorted_if_several(
                           filter_instances(list_all(st, "Project"), args.project.value),
                           today),
                       choice.answers))

\* "if self.customer is not None: ..."
with_chosen_customer(st, args, choice) ==
    IF choice.raised # None \/ args.customer = None THEN choice
    ELSE chosen(choice, "customer",
                one_of(filter_instances(list_all(st, "Customer"), args.customer.value),
                       choice.answers))

\* "[x for x in User.all() if x.login == self.user]"
RECURSIVE with_login(_, _, _)
with_login(users, login_name, i) ==
    IF i > Len(users) THEN <<>>
    ELSE (IF users[i].login = login_name THEN <<users[i]>> ELSE <<>>)
         \o with_login(users, login_name, i + 1)

\* "if self.user is not None: ..."
with_chosen_user(st, args, choice) ==
    IF choice.raised # None \/ args.user = None THEN choice
    ELSE chosen(choice, "user",
                one_of(with_login(list_all(st, "User"), args.user.value, 1),
                       choice.answers))

\* "return TaskFilter(project=project, customer=customer, user=user,
\*                    task_type=self.task_type)"
filter_of_choice(choice) ==
    [returned |-> IF choice.raised # None THEN choice.raised ELSE TaskFilter(choice.scope),
     answers |-> choice.answers]

\* ParsedArguments.to_task_filter: st is the registry, today the day of the
\* run, answers the lines typed at the menus.  The outcome is the filter, or
\* the exception raised, and the lines not read.
to_task_filter(st, args, today, answers) ==
    filter_of_choice(
        with_chosen_user(st, args,
            with_chosen_customer(st, args,
                with_chosen_project(st, args, today, nothing_chosen(args, answers)))))

\* "for pair in zip(periods, tasks): pair[0].set_tasks(pair[1])"
RECURSIVE set_tasks_for_all(_, _, _)
set_tasks_for_all(periods, tasks, i) ==
    IF i > Len(periods) \/ i > Len(tasks) THEN periods
    ELSE set_tasks_for_all([periods EXCEPT ![i] = set_tasks(@, tasks[i])], tasks, i + 1)

\* fetch_tasks_for_all once get_tasks_for_task_filters has returned or raised
periods_of_fetched(fetched, periods) ==
    [st |-> fetched.st,
     returned |-> IF fetched.st.raised # "" THEN [exc |-> fetched.st.raised]
                  ELSE list(set_tasks_for_all(
                                periods,
                                [k \in 1 .. Len(fetched.returned) |->
                                    tasks_of(fetched.st, fetched.returned[k])],
                                1))]

\* "filters = [period.task_filter for period in periods]"
filters_of(periods) == [i \in 1 .. Len(periods) |-> periods[i].task_filter]

\* PeriodOfWork.fetch_tasks_for_all; responses is what the server answers.
\* The outcome is the registry state and the periods after the call, which
\* returns nothing, or the exception raised.
fetch_tasks_for_all(st, periods, responses) ==
    periods_of_fetched(get_tasks_for_task_filters(st, filters_of(periods), responses),
                       periods)

\* The tasks that the server holds for the project: one a week, in the weeks
\* numbered in busy, counted from the last day of the first project year.
RECURSIVE ServerTasks(_, _)
ServerTasks(busy, i) ==
    IF i > MaxBusyWeeks THEN <<>>
    ELSE (IF i \in busy
          THEN <<Child("task",
                       FetchedElement(i, date_add([year |-> FirstProjectYear, month |-> 12,
                                                   day |-> 31], 7 * (i - 1))))>>
          ELSE <<>>)
         \o ServerTasks(busy, i + 1)

\* What fetch_urls_in_parallel returns for the URLs of the filters: for a
\* filter without dates every task of the project, for the i-th filter with
\* dates a task dated on its start date when i is in busy.
fetch_urls_in_parallel(task_filters, busy) ==
    [i \in 1 .. Len(task_filters) |->
        IF task_filters[i].start_date = None THEN ServerTasks(busy, 1)
        ELSE IF i \in busy
        THEN <<Child("task", FetchedElement(i, task_filters[i].start_date))>>
        ELSE <<>>]

\* create_from_string once the weeks are made
weeks_with_tasks(st, weeks, busy) ==
    IF IsExc(weeks) THEN [st |-> st, returned |-> weeks]
    ELSE fetch_tasks_for_all(st, weeks.items,
                             fetch_urls_in_parallel(filters_of(weeks.items), busy))

weeks_of_range(dates, task_filter) ==
    IF IsExc(dates) THEN dates
    ELSE create_array_of_weeks_between_dates(dates.start, dates.end, task_filter)

Mode == {"PROJECT", "AGGREGATE", "DETAIL"}

\* ReportCreator.__init__ after self.time_periods is assigned
creator_fields(args, task_filter, time_periods, mode) ==
    IF IsExc(time_periods) THEN time_periods
    ELSE [args |-> args,
          task_filter |-> task_filter,
          time_periods |-> time_periods.items,
          mode |-> mode,
          parent_report |-> None,
          reports |-> <<>>]

mode_of_time(time_periods) ==
    IF IsExc(time_periods) THEN "DETAIL"
    ELSE IF Len(time_periods.items) > 1 THEN "AGGREGATE" ELSE "DETAIL"

creator_for_time(args, task_filter, time_periods) ==
    creator_fields(args, task_filter, time_periods, mode_of_time(time_periods))

create_from_string(st, string, task_filter, now, busy) ==
    weeks_with_tasks(st,
                     weeks_of_range(date_range_from_string(string, now), task_filter),
                     busy)

\* ReportCreator.__init__ once the periods are made or an exception is raised
creator_of_periods(args, task_filter, made, time_given) ==
    [st |-> made.st,
     returned |-> IF time_given THEN creator_for_time(args, task_filter, made.returned)
                  ELSE creator_fields(args, task_filter, made.returned, "PROJECT")]

\* ReportCreator.__init__ once to_task_filter has returned or raised
creator_for_filter(st, args, task_filter, now, busy) ==
    IF IsExc(task_filter) THEN [st |-> st, returned |-> task_filter]
    ELSE IF no_time(args.time)
    THEN creator_of_periods(
             args, task_filter,
             create_for_entire_project(st, task_filter,
                                       fetch_urls_in_parallel(<<task_filter>>, busy)),
             FALSE)
    ELSE creator_of_periods(
             args, task_filter,
             create_from_string(st, args.time.value, task_filter, now, busy),
             TRUE)

\* ReportCreator(args): st is the registry, now the year and today the day of
\* the run, answers the lines typed, busy the weeks for which the server
\* holds a task.  The outcome is the registry state and the creator, or the
\* exception raised.
ReportCreator(st, args, now, today, answers, busy) ==
    creator_for_filter(st, args, to_task_filter(st, args, today, answers).returned,
                       now, busy)

formatter(self) ==
    IF self.args.formatter = "twiki" THEN Formatter("TwikiFormatter")
    ELSE IF self.args.formatter = "markdown" THEN Formatter("MarkdownFormatter")
    ELSE Formatter("TextFormatter")

create_parent_report(self) ==
    IF self.mode = "PROJECT"
    THEN AggregateReport(self.time_periods, formatter(self),
                         self.task_filter.scope.project.description,
                         sub_non_alnum(self.task_filter.scope.project.description)
                             \o <<"R", "e", "p", "o", "r", "t">>)
    ELSE IF self.mode = "AGGREGATE"
    THEN IF TaskFilter__str__raises(self.time_periods[1].task_filter) THEN AttributeError
         ELSE AggregateReport(
                  self.time_periods, formatter(self),
                  WeekOfWork__str__(self.time_periods[1]) \o <<" ", "t", "o", " ">>
                      \o WeekOfWork__str__(self.time_periods[Len(self.time_periods)])
                      \o <<" ", "f", "o", "r", " ">>
                      \o TaskFilter__str__(self.time_periods[1].task_filter),
                  wiki_string(self.time_periods[1]) \o <<"T", "o">>
                      \o wiki_string(self.time_periods[Len(self.time_periods)]))
    ELSE None

\* "for period in self.time_periods: self.reports.append(DetailedReport(...))"
RECURSIVE append_reports(_, _)
append_reports(self, i) ==
    IF i > Len(self.time_periods) THEN [creator |-> self, raised |-> None]
    ELSE IF IsExc(DetailedReport(self.time_periods[i], self.parent_report,
                                 formatter(self), self.args.story))
    THEN [creator |-> self,
          raised |-> DetailedReport(self.time_periods[i], self.parent_report,
                                    formatter(self), self.args.story)]
    ELSE append_reports(
             [self EXCEPT !.reports =
                 Append(@, DetailedReport(self.time_periods[i], self.parent_report,
                                          formatter(self), self.args.story))],
             i + 1)

\* create_reports once create_parent_report has returned or raised
reports_with_parent(self, parent) ==
    IF parent # None /\ IsExc(parent) THEN [creator |-> self, raised |-> parent]
    ELSE append_reports([self EXCEPT !.parent_report = parent], 1)

create_reports(self) == reports_with_parent(self, create_parent_report(self))

(***************************************************************************)
(* A ReportCreator is constructed from parsed arguments, then formatter,   *)
(* create_parent_report and create_reports are called in any order.  res   *)
(* is the creator, or what its construction raised; prev is what the last  *)
(* call returned or raised.                                                *)
(***************************************************************************)
MaxReports == 2

ReportYear == Dec(FirstTokenYear + 2)

\* Days of January, the first two weeks of the year, January, and no date.
ReportTokens ==
    {Token("full", d, 1, ReportYear, TRUE,
           Dec(d) \o <<"/">> \o Dec(1) \o <<"/">> \o ReportYear) : d \in {1, 2, 8, 9, 31}}
    \cup LetterTokens("week", {<<n, Dec(n)>> : n \in {1, 2}}, {TRUE}, {ReportYear})
    \cup {Token("month", 1, 0, ReportYear, TRUE, Dec(1) \o <<"/">> \o ReportYear),
          Token("raw", 0, 0, <<>>, FALSE, <<"a", "b", "c">>)}

\* args.time: not given, empty, one token or "A-B"
ReportTimes ==
    {None, [value |-> <<>>]}
    \cup {[value |-> t.string] : t \in ReportTokens}
    \cup {[value |-> RangeString(a, b, <<>>, <<>>)] : a \in ReportTokens, b \in ReportTokens}

\* An optional text that is given.
Given(text) == [value |-> text]

Search(project, customer, user, task_type, answers, today) ==
    [project |-> project, customer |-> customer, user |-> user, task_type |-> task_type,
     answers |-> answers, today |-> today]

\* The days of the runs: project 231 has ended on both, project 230 on the
\* second.
RunDay == [year |-> 2017, month |-> 12, day |-> 1, date_only |-> TRUE]

LaterRunDay == [year |-> 2019, month |-> 1, day |-> 1, date_only |-> TRUE]

Development == <<"D", "e", "v", "e", "l", "o", "p", "m", "e", "n", "t">>

\* The search strings of a run, with the lines typed at its menus: a project
\* search that one project matches, that both match (the menu is answered
\* with a word, with a number that is no index and with an index, or not at
\* all), that none matches; a customer; a user by login and by a part of the
\* login; a task type alone; nothing.
ReportSearches ==
    {Search(Given(<<"c", "o", "o", "l">>), None, None, None, <<>>, RunDay),
     Search(Given(<<"V", "e", "r", "y", ",", "O", "L", "D">>), None, None, None, <<>>, RunDay),
     Search(Given(<<"V", "E", "R", "Y">>), None, None, None, <<<<"x">>, <<"7">>, <<" ", "1">>>>, RunDay),
     Search(Given(<<"V", "E", "R", "Y">>), None, None, None, <<<<"x">>, <<"7">>, <<" ", "1">>>>, LaterRunDay),
     Search(Given(<<"V", "E", "R", "Y">>), None, None, None, <<<<"x">>>>, RunDay),
     Search(Given(<<"n", "o", "t", "h", "i", "n", "g">>), None, None, None, <<>>, RunDay),
     Search(None, Given(<<"c", "u", "s", "t", "o", "m">>), None, None, <<>>, RunDay),
     Search(None, None, Given(TestUser), None, <<>>, RunDay),
     Search(None, None, Given(<<"t", "e", "s", "t">>), None, <<>>, RunDay),
     Search(None, None, None, Given(Development), <<>>, RunDay),
     Search(None, None, None, None, <<>>, RunDay)}

\* The arguments that ArgumentParser.parse returns.
ReportArgs ==
    {args \in {[time |-> time, project |-> search.project, customer |-> search.customer,
                user |-> search.user, task_type |-> search.task_type,
                formatter |-> fmt, story |-> story] :
                   time \in ReportTimes, search \in ReportSearches,
                   fmt \in {"text", "twiki", "markdown"}, story \in BOOLEAN} :
        ~IsExc(parse(args))}

SearchOf(args) ==
    {search \in ReportSearches :
        /\ search.project = args.project
        /\ search.customer = args.customer
        /\ search.user = args.user
        /\ search.task_type = args.task_type}

InitReport ==
    /\ pc = "call"
    /\ \E args \in ReportArgs, busy \in SUBSET (1 .. MaxBusyWeeks) :
           \E search \in SearchOf(args) :
               arg = [kind |-> "report", args |-> args, busy |-> busy,
                      now |-> FirstTokenYear + 1,
                      today |-> search.today, answers |-> search.answers]
    /\ res = None
    /\ prev = None
    /\ Loaded

ReportCreatorCall ==
    /\ pc = "call"
    /\ arg.kind = "report"
    /\ Outcome(ReportCreator(Registry, arg.args, arg.now, arg.today, arg.answers,
                             arg.busy))
    /\ pc' = "ReportCreator"
    /\ UNCHANGED <<arg, prev, period>>

Created == pc # "call" /\ arg.kind = "report" /\ ~IsExc(res)

FormatterCall ==
    /\ Created
    /\ prev' = formatter(res)
    /\ pc' = "formatter"
    /\ UNCHANGED <<arg, res>>
    /\ UNCHANGED objects

CreateParentReportCall ==
    /\ Created
    /\ prev' = create_parent_report(res)
    /\ pc' = "create_parent_report"
    /\ UNCHANGED <<arg, res>>
    /\ UNCHANGED objects

CreateReportsCall ==
    /\ Created
    /\ Len(res.reports) < MaxReports
    /\ res' = create_reports(res).creator
    /\ prev' = create_reports(res).raised
    /\ pc' = "create_reports"
    /\ UNCHANGED arg
    /\ UNCHANGED objects

NextReport ==
    \/ ReportCreatorCall
    \/ FormatterCall
    \/ CreateParentReportCall
    \/ CreateReportsCall

SpecReport == InitReport /\ [][NextReport]_vars
(***************************************************************************)
(* Calls of PeriodOfWork.fetch_tasks_for_all on consecutive weeks, as      *)
(* create_array_of_weeks_between_dates makes them, in the registry that     *)
(* login left.  get_tasks_for_task_filters sends one request for each week  *)
(* through fetch_urls_in_parallel; what becomes of each request is drawn in *)
(* the initial state: the server answers it, or it cannot be completed.     *)
(***************************************************************************)
MaxFetchWeeks == 3

\* The weeks 7, 8, ... of 2023, each with tasks=[].
FetchWeeks(n) ==
    [i \in 1 .. n |-> WeekOfWork(2023, 6 + i, TaskFilter(ProjectScope), list(<<>>))]

\* What the server answers for one filter: no task, one task or two tasks of
\* different users; and the tasks Task.from_element makes of each answer.
FetchAnswers == {<<>>, <<1>>, <<1, 2>>}

FetchResponse(answer) ==
    [k \in 1 .. Len(answer) |-> Child("task", FetchedElement(answer[k], PeriodStart))]

FetchResult(answer) == [k \in 1 .. Len(answer) |-> FetchedTask(answer[k], PeriodStart, TRUE)]

\* What becomes of the request for one filter: urlopen(request).read() returns
\* the answer of the server, or raises urllib.error.URLError.
Requests ==
    {[failed |-> FALSE, answer |-> answer] : answer \in FetchAnswers}
        \cup {[failed |-> TRUE, answer |-> <<>>]}

\* "pool.map(get_url_contents, urls)" returns, with one response for each URL
\* in the order of the URLs, once every call of get_url_contents has returned.
\* A call in which get_contents_of_url reaches sys.exit(1) raises SystemExit in
\* a worker process of the pool: the process prints the message and ends
\* without handing over a result, and map goes on waiting for it.
pool_map_returns(requests) == \A i \in 1 .. Len(requests) : ~requests[i].failed

\* arg.requests is what becomes of the request for each week, arg.responses
\* what fetch_urls_in_parallel returns when it returns, arg.results the task
\* lists that get_tasks_for_task_filters makes of that.
InitFetch ==
    /\ pc = "call"
    /\ \E n \in 1 .. MaxFetchWeeks :
           \E requests \in [1 .. n -> Requests] :
               arg = [kind |-> "fetch", periods |-> FetchWeeks(n),
                      requests |-> requests,
                      responses |-> [i \in 1 .. n |-> FetchResponse(requests[i].answer)],
                      results |-> [i \in 1 .. n |-> FetchResult(requests[i].answer)]]
    /\ res = None
    /\ prev = None
    /\ Loaded

\* res is the list of periods after the call, which returns nothing; while the
\* call is in pool.map, pc is "pool.map" and nothing is assigned.
FetchTasksForAllCall ==
    /\ pc = "call"
    /\ arg.kind = "fetch"
    /\ IF pool_map_returns(arg.requests)
       THEN /\ Outcome(fetch_tasks_for_all(Registry, arg.periods, arg.responses))
            /\ pc' = "done"
       ELSE /\ pc' = "pool.map"
            /\ UNCHANGED <<heap, instances, res>>
    /\ UNCHANGED <<arg, prev, period>>

NextFetch == FetchTasksForAllCall

SpecFetch == InitFetch /\ [][NextFetch]_vars
(***************************************************************************)
(* report_creator.py: the formatters.  A formatter is a record of its      *)
(* class and its pieces, a sequence of texts; a capability gives an        *)
(* outcome, the formatter as the call left it and what the call raised.    *)
(***************************************************************************)
Spaces(n) == [i \in 1 .. n |-> " "]

\* "%-N.Ns": at most N characters, left-justified in N columns
left_justified(text, n) ==
    IF Len(text) >= n THEN SubSeq(text, 1, n) ELSE text \o Spaces(n - Len(text))

\* "%N.Ns": at most N characters, right-justified in N columns
right_justified(text, n) ==
    IF Len(text) >= n THEN SubSeq(text, 1, n) ELSE Spaces(n - Len(text)) \o text

\* "".join(texts)
RECURSIVE joined(_, _)
joined(texts, i) ==
    IF i > Len(texts) THEN <<>> ELSE texts[i] \o joined(texts, i + 1)

outcome(self, raised) == [self |-> self, raised |-> raised]

\* "self.pieces.append(piece)"
appended(self, piece) == [self EXCEPT !.pieces = Append(@, piece)]

\* TextFormatter.generate_column_length_list: zip(*lengths) has as many columns
\* as the shortest row
shortest_row(table) ==
    CHOOSE n \in {Len(table[r]) : r \in 1 .. Len(table)} :
        \A r \in 1 .. Len(table) : n <= Len(table[r])

longest_cell(table, column) ==
    CHOOSE n \in {Len(table[r][column]) : r \in 1 .. Len(table)} :
        \A r \in 1 .. Len(table) : n >= Len(table[r][column])

generate_column_length_list(table) ==
    [column \in 1 .. shortest_row(table) |-> longest_cell(table, column)]

\* "format_string % tuple(columns)" with one "%-N.Ns  " for each length
RECURSIVE text_row(_, _, _)
text_row(columns, lengths, i) ==
    IF i > Len(lengths) THEN <<>>
    ELSE left_justified(columns[i], lengths[i]) \o <<" ", " ">>
         \o text_row(columns, lengths, i + 1)

\* TextFormatter.generate_table_row: the % operator raises TypeError unless
\* there are as many columns as conversions
TextFormatter_generate_table_row(self, columns, lengths) ==
    IF Len(columns) # Len(lengths) THEN outcome(self, TypeError)
    ELSE outcome(appended(appended(self, text_row(columns, lengths, 1)), <<"\n">>), None)

\* " | *%s*" or " | %s" for the columns from the second to the last but one
RECURSIVE twiki_middle(_, _, _)
twiki_middle(columns, i, header) ==
    IF i >= Len(columns) THEN <<>>
    ELSE (IF header THEN <<" ", "|", " ", "*">> \o columns[i] \o <<"*">>
          ELSE <<" ", "|", " ">> \o columns[i])
         \o twiki_middle(columns, i + 1, header)

twiki_row(columns, header, highlight_first) ==
    (IF highlight_first THEN <<"|", " ", "*">> \o columns[1] \o <<"*", " ">>
     ELSE <<"|", " ">> \o columns[1])
    \o twiki_middle(columns, 2, header)
    \o (IF header THEN <<" ", "|", " ", "*">> \o columns[Len(columns)] \o <<"*", " ", "|">>
        ELSE <<" ", "|", " ">> \o columns[Len(columns)] \o <<" ", "|">>)

\* TwikiFormatter.generate_table_row: the format string has two conversions
\* and one more for each column after the second
TwikiFormatter_generate_table_row(self, columns, header, highlight_first) ==
    IF Len(columns) < 2 THEN outcome(self, TypeError)
    ELSE outcome(appended(appended(self, twiki_row(columns, header, highlight_first)),
                          <<"\n">>),
                 None)

\* self.generate_table_row(row, lengths, header) of a TextFormatter or of a
\* TwikiFormatter
generate_table_row(self, columns, lengths, header) ==
    IF self.cls = "TwikiFormatter"
    THEN TwikiFormatter_generate_table_row(self, columns, header, TRUE)
    ELSE TextFormatter_generate_table_row(self, columns, lengths)

\* "self.generate_table_row(table[0], lengths, header=has_headers)" and
\* "for row in table[1:]: self.generate_table_row(row, lengths)"
RECURSIVE generate_table_rows(_, _, _, _, _)
generate_table_rows(done, table, lengths, has_headers, i) ==
    IF done.raised # None \/ i > Len(table) THEN done
    ELSE generate_table_rows(
             generate_table_row(done.self, table[i], lengths, has_headers /\ i = 1),
             table, lengths, has_headers, i + 1)

\* TextFormatter.generate_table
TextFormatter_generate_table(self, table, has_headers) ==
    IF table = <<>> THEN outcome(self, None)
    ELSE generate_table_rows(outcome(self, None), table,
                             generate_column_length_list(table), has_headers, 1)

\* chunks_of_n and transpose_table, then "row = sum(row, [])": the r-th row of
\* the transposed table is the r-th row of each chunk of 10, ['', ''] where a
\* chunk has no r-th row
RECURSIVE transposed_row(_, _, _)
transposed_row(table, r, chunk) ==
    IF 10 * chunk >= Len(table) THEN <<>>
    ELSE (IF 10 * chunk + r <= Len(table) THEN table[10 * chunk + r]
          ELSE <<<<>>, <<>>>>)
         \o transposed_row(table, r, chunk + 1)

\* "for row in table: self.generate_table_row(row, highlight_first=False)"
RECURSIVE generate_transposed_rows(_, _, _)
generate_transposed_rows(done, table, r) ==
    IF done.raised # None \/ r > 10 THEN done
    ELSE generate_transposed_rows(
             TwikiFormatter_generate_table_row(done.self, transposed_row(table, r, 0),
                                               FALSE, FALSE),
             table, r + 1)

\* A variant of TwikiFormatter.generate_table that lays every table out one
\* row per line.
TwikiFormatter_generate_table_row_per_line(self, table, has_headers) ==
    TextFormatter_generate_table(self, table, has_headers)

\* TwikiFormatter.generate_table
TwikiFormatter_generate_table(self, table, has_headers) ==
    IF Len(table) < 10 \/ has_headers
    THEN TextFormatter_generate_table(self, table, has_headers)
    ELSE generate_transposed_rows(outcome(self, None), table, 1)

\* MarkdownFormatter.generate_table: 'return ""'
MarkdownFormatter_generate_table(self, table, has_headers) == outcome(self, None)

generate_table(self, table, has_headers) ==
    IF self.cls = "TwikiFormatter" THEN TwikiFormatter_generate_table(self, table, has_headers)
    ELSE IF self.cls = "MarkdownFormatter"
    THEN MarkdownFormatter_generate_table(self, table, has_headers)
    ELSE TextFormatter_generate_table(self, table, has_headers)

\* "\n%s\n", "\n---++%s\n" and "\n# %s\n"
generate_header(self, header) ==
    appended(self,
             IF self.cls = "TwikiFormatter"
             THEN <<"\n", "-", "-", "-", "+", "+">> \o header \o <<"\n">>
             ELSE IF self.cls = "MarkdownFormatter"
             THEN <<"\n", "#", " ">> \o header \o <<"\n">>
             ELSE <<"\n">> \o header \o <<"\n">>)

\* "\n%s\n", "\n---++++%s\n" and "\n## %s\n"
generate_section_header(self, header) ==
    appended(self,
             IF self.cls = "TwikiFormatter"
             THEN <<"\n", "-", "-", "-", "+", "+", "+", "+">> \o header \o <<"\n">>
             ELSE IF self.cls = "MarkdownFormatter"
             THEN <<"\n", "#", "#", " ">> \o header \o <<"\n">>
             ELSE <<"\n">> \o header \o <<"\n">>)

\* TextFormatter.generate_large_text, inherited by the other two: "%s\n"
generate_large_text(self, text) == appended(self, text \o <<"\n">>)

\* "[{}]" and, for Markdown, "*{}*"; "" for an empty story
format_story(self, story) ==
    IF story = <<>> THEN <<>>
    ELSE IF self.cls = "MarkdownFormatter" THEN <<"*">> \o story \o <<"*">>
    ELSE <<"[">> \o story \o <<"]">>

\* TextFormatter.flatten: "".join(self.pieces)
flatten(self) == joined(self.pieces, 1)
(***************************************************************************)
(* textwrap.fill as generate_aligned_list calls it (break_long_words=False *)
(* and the defaults expand_tabs, replace_whitespace, drop_whitespace and   *)
(* break_on_hyphens): tabs are expanded and whitespace made spaces, the    *)
(* text is split in chunks, runs of spaces, dashes and words, a word also  *)
(* ending after a hyphen between letters, and the chunks fill lines        *)
(* greedily; a chunk longer than a line is on a line of its own.  The      *)
(* characters of a text are those of ASCII, the whitespace and the decimal *)
(* digits of Unicode.                                                      *)
(***************************************************************************)
\* string.whitespace, the whitespace of textwrap
TextwrapWhitespace == {" ", "\t", "\n", "\r", "\f", ""}

\* \w
IsWordChar(char) == char \in AlnumChars \/ char = "_" \/ IsDigit(char)

\* [^\d\W]
IsLetter(char) == IsWordChar(char) /\ ~IsDigit(char)

\* [\w!"'&.,?]
IsWordPunct(char) == IsWordChar(char) \/ char \in {"!", "\"", "'", "&", ".", ",", "?"}

\* text.expandtabs(8): column is the column of text[i]
RECURSIVE expandtabs(_, _, _)
expandtabs(text, i, column) ==
    IF i > Len(text) THEN <<>>
    ELSE IF text[i] = "\t"
    THEN Spaces(8 - (column % 8)) \o expandtabs(text, i + 1, 0)
    ELSE <<text[i]>>
             \o expandtabs(text, i + 1, IF text[i] \in {"\n", "\r"} THEN 0 ELSE column + 1)

\* TextWrapper._munge_whitespace
munge_whitespace(text) ==
    [i \in 1 .. Len(expandtabs(text, 1, 0)) |->
        IF expandtabs(text, 1, 0)[i] \in TextwrapWhitespace THEN " "
        ELSE expandtabs(text, 1, 0)[i]]

\* The end of the longest run of the character char from text[i] on.
RECURSIVE run_end(_, _, _)
run_end(text, i, char) ==
    IF i < Len(text) /\ text[i + 1] = char THEN run_end(text, i + 1, char) ELSE i

\* "-{2,} (?=\w)" at text[i]
dashes_at(text, i) ==
    /\ i < Len(text)
    /\ text[i] = "-"
    /\ text[i + 1] = "-"
    /\ run_end(text, i, "-") < Len(text)
    /\ IsWordChar(text[run_end(text, i, "-") + 1])

\* "(?<=letter{2}-) | (?<=letter-letter-)" after the hyphen text[i], and
\* "(?= letter -? letter)"
hyphen_between_letters(text, i) ==
    /\ i <= Len(text)
    /\ text[i] = "-"
    /\ \/ i > 2 /\ IsLetter(text[i - 2]) /\ IsLetter(text[i - 1])
       \/ i > 3 /\ IsLetter(text[i - 3]) /\ text[i - 2] = "-" /\ IsLetter(text[i - 1])
    /\ i < Len(text)
    /\ IsLetter(text[i + 1])
    /\ \/ i + 1 < Len(text) /\ IsLetter(text[i + 2])
       \/ i + 2 < Len(text) /\ text[i + 2] = "-" /\ IsLetter(text[i + 3])

\* The end of the word that starts at text[i] and has the n characters
\* text[i .. i + n - 1] at least: after a hyphen between letters, before a
\* space or the end of the text, or before dashes between words.
RECURSIVE word_end(_, _, _)
word_end(text, i, n) ==
    IF hyphen_between_letters(text, i + n) THEN i + n
    ELSE IF i + n > Len(text) \/ text[i + n] = " " THEN i + n - 1
    ELSE IF IsWordPunct(text[i + n - 1]) /\ dashes_at(text, i + n) THEN i + n - 1
    ELSE word_end(text, i, n + 1)

\* The end of the match of wordsep_re that starts at text[i].
chunk_end(text, i) ==
    IF text[i] = " " THEN run_end(text, i, " ")
    ELSE IF i > 1 /\ IsWordPunct(text[i - 1]) /\ dashes_at(text, i)
    THEN run_end(text, i, "-")
    ELSE word_end(text, i, 1)

\* TextWrapper._split: wordsep_re.split(text) without the empty strings
RECURSIVE split_chunks(_, _)
split_chunks(text, i) ==
    IF i > Len(text) THEN <<>>
    ELSE <<SubSeq(text, i, chunk_end(text, i))>>
             \o split_chunks(text, chunk_end(text, i) + 1)

\* "chunk.strip() == ''"
IsBlank(chunk) == \A i \in 1 .. Len(chunk) : chunk[i] \in Whitespace

\* The chunks of a line without a blank chunk at its end.
without_trailing_blank(line) ==
    IF line # <<>> /\ IsBlank(line[Len(line)]) THEN SubSeq(line, 1, Len(line) - 1)
    ELSE line

\* "while chunks: ... if cur_len + l <= width": the place of the first chunk
\* from the i-th on that the line has no room for
RECURSIVE first_not_fitting(_, _, _, _)
first_not_fitting(chunks, i, cur_len, width) ==
    IF i > Len(chunks) \/ cur_len + Len(chunks[i]) > width THEN i
    ELSE first_not_fitting(chunks, i + 1, cur_len + Len(chunks[i]), width)

\* _handle_long_word: a chunk that no line has room for is put on the line
\* that has nothing yet.  The line is chunks[start .. stop - 1]; the place
\* after the line's last chunk.
line_end(chunks, start, stop, width) ==
    IF stop = start /\ stop <= Len(chunks) /\ Len(chunks[stop]) > width THEN stop + 1
    ELSE stop

\* TextWrapper._wrap_chunks for a width above 0: the lines, each a sequence
\* of chunks, that the chunks from the i-th on add to lines.  width is the
\* room of a line after its indent.
RECURSIVE wrap_chunks(_, _, _, _)
wrap_line(chunks, start, end, lines, width) ==
    wrap_chunks(chunks, end,
                IF without_trailing_blank(SubSeq(chunks, start, end - 1)) = <<>> THEN lines
                ELSE Append(lines, without_trailing_blank(SubSeq(chunks, start, end - 1))),
                width)

wrap_from(chunks, start, lines, width) ==
    wrap_line(chunks, start,
              line_end(chunks, start, first_not_fitting(chunks, start, 0, width), width),
              lines, width)

wrap_chunks(chunks, i, lines, width) ==
    IF i > Len(chunks) THEN lines
    ELSE IF lines # <<>> /\ IsBlank(chunks[i]) THEN wrap_from(chunks, i + 1, lines, width)
    ELSE wrap_from(chunks, i, lines, width)

\* "\n".join(lines), each line after its indent
RECURSIVE filled(_, _, _)
filled(lines, i, indent) ==
    IF i > Len(lines) THEN <<>>
    ELSE (IF i > 1 THEN <<"\n">> ELSE <<>>) \o indent \o joined(lines[i], 1)
         \o filled(lines, i + 1, indent)

\* textwrap.fill(text, break_long_words=False, width=width,
\*               initial_indent=indent, subsequent_indent=indent): the text
\* filled, or the ValueError of a width that is not above 0
fill(text, width, indent) ==
    IF width <= 0 THEN ValueError
    ELSE [text |-> filled(wrap_chunks(split_chunks(munge_whitespace(text), 1), 1, <<>>,
                                      width - Len(indent)),
                          1, indent)]

\* "max([len(content[0]) for content in contents])"
first_column_size(contents) ==
    CHOOSE n \in {Len(contents[i][1]) : i \in 1 .. Len(contents)} :
        \A i \in 1 .. Len(contents) : n >= Len(contents[i][1])

\* "format_string % (content[0], second_column)": "%N.Ns: %s\n"
aligned_item(content, size) ==
    right_justified(content[1], size) \o <<":", " ">>
        \o strip(fill(content[2], 80 - (size + 2), Spaces(size + 2)).text)
        \o <<"\n">>

\* "   * *%s* - %s\n"
twiki_item(content) ==
    <<" ", " ", " ", "*", " ", "*">> \o content[1] \o <<"*", " ", "-", " ">>
        \o content[2] \o <<"\n">>

\* " * **%s** %s\n"
markdown_item(content) ==
    <<" ", "*", " ", "*", "*">> \o content[1] \o <<"*", "*", " ">>
        \o content[2] \o <<"\n">>

\* "for content in contents: self.pieces.append(...)"
RECURSIVE append_items(_, _, _, _)
append_items(self, contents, i, size) ==
    IF i > Len(contents) THEN self
    ELSE append_items(
             appended(self,
                      IF self.cls = "TwikiFormatter" THEN twiki_item(contents[i])
                      ELSE IF self.cls = "MarkdownFormatter" THEN markdown_item(contents[i])
                      ELSE aligned_item(contents[i], size)),
             contents, i + 1, size)

\* generate_aligned_list: TextFormatter takes the max of the lengths of the
\* first columns, a ValueError for no contents, and fills the first second
\* column before it appends anything, a ValueError for a first column of 78
\* characters or more; MarkdownFormatter starts with an empty line
generate_aligned_list(self, contents) ==
    IF self.cls = "TwikiFormatter" THEN outcome(append_items(self, contents, 1, 0), None)
    ELSE IF self.cls = "MarkdownFormatter"
    THEN outcome(append_items(appended(self, <<"\n">>), contents, 1, 0), None)
    ELSE IF contents = <<>> THEN outcome(self, ValueError)
    ELSE IF IsExc(fill(contents[1][2], 80 - (first_column_size(contents) + 2),
                       Spaces(first_column_size(contents) + 2)))
    THEN outcome(self, ValueError)
    ELSE outcome(append_items(self, contents, 1, first_column_size(contents)), None)
(***************************************************************************)
(* report_creator.py: the reports.  A report holds its formatter by        *)
(* reference, the place of the formatter on the heap; generate_report and  *)
(* generate_stories_for_user give the outcome on that formatter.           *)
(***************************************************************************)
\* A Task with the fields story and text.
described(task, story, text) == [story |-> story, text |-> text] @@ task

\* "DateUtils.format_delta_as_hours": the class DateUtils of dateutils.py has
\* format_delta and no attribute format_delta_as_hours, so that the look-up
\* raises before the argument is looked at
format_delta_as_hours == AttributeError

\* get_story of get_stories_for_day_and_user
get_story(include_story, fmt, task) ==
    IF include_story /\ format_story(fmt, task.story) # <<>>
    THEN format_story(fmt, task.story) \o <<" ">>
    ELSE <<>>

\* "[get_story(task) + task.text for task in tasks_for_day]"
RECURSIVE all_stories(_, _, _, _)
all_stories(include_story, fmt, tasks_for_day, i) ==
    IF i > Len(tasks_for_day) THEN <<>>
    ELSE <<get_story(include_story, fmt, tasks_for_day[i]) \o tasks_for_day[i].text>>
             \o all_stories(include_story, fmt, tasks_for_day, i + 1)

Elements(texts) == {texts[i] : i \in 1 .. Len(texts)}

\* The members of texts, each once, in the order in which they come first.
RECURSIVE first_occurrences(_, _)
first_occurrences(texts, i) ==
    IF i > Len(texts) THEN <<>>
    ELSE (IF texts[i] \in Elements(SubSeq(texts, 1, i - 1)) THEN <<>> ELSE <<texts[i]>>)
             \o first_occurrences(texts, i + 1)

\* A variant of set(...) that keeps every element.
with_duplicates(texts) == texts

\* "set(all_stories)": the members, each once
set(texts) == first_occurrences(texts, 1)

\* The order in which a set of strings is iterated is left open by Python:
\* it is a function of the strings, of the order in which they were added
\* and of the hash seed of the run (PYTHONHASHSEED).  A hash seed is modelled
\* as that function: for the members of a set, in the order in which they
\* were added, it gives the places in the order in which they are iterated.
Orderings(places) ==
    {order \in [1 .. Cardinality(places) -> places] :
        \A i, j \in 1 .. Cardinality(places) : i # j => order[i] # order[j]}

iterated(members, hash_seed) ==
    [k \in 1 .. Len(members) |-> members[hash_seed[members][k]]]

\* " ".join(texts)
RECURSIVE joined_with_spaces(_, _)
joined_with_spaces(texts, i) ==
    IF i > Len(texts) THEN <<>>
    ELSE (IF i > 1 THEN <<" ">> ELSE <<>>) \o texts[i] \o joined_with_spaces(texts, i + 1)

\* re.compile(r'\s+').sub(' ', text)
RECURSIVE sub_whitespace(_, _)
sub_whitespace(text, i) ==
    IF i > Len(text) THEN <<>>
    ELSE (IF text[i] \notin Whitespace THEN <<text[i]>>
          ELSE IF i > 1 /\ text[i - 1] \in Whitespace THEN <<>>
          ELSE <<" ">>)
         \o sub_whitespace(text, i + 1)

\* DetailedReport.get_stories_for_day_and_user, in a run with the hash seed
get_stories_for_day_and_user(self, fmt, user, date, hash_seed) ==
    IF IsExc(filter_tasks(self.time_period, date, None, user, FALSE))
    THEN filter_tasks(self.time_period, date, None, user, FALSE)
    ELSE [text |->
             strip(sub_whitespace(
                 joined_with_spaces(
                     iterated(set(all_stories(
                                      self.include_story, fmt,
                                      filter_tasks(self.time_period, date, None,
                                                   user, FALSE).items, 1)),
                              hash_seed), 1), 1))]

\* date.strftime("%A")
DayNames ==
    <<<<"M", "o", "n", "d", "a", "y">>, <<"T", "u", "e", "s", "d", "a", "y">>,
      <<"W", "e", "d", "n", "e", "s", "d", "a", "y">>,
      <<"T", "h", "u", "r", "s", "d", "a", "y">>, <<"F", "r", "i", "d", "a", "y">>,
      <<"S", "a", "t", "u", "r", "d", "a", "y">>, <<"S", "u", "n", "d", "a", "y">>>>

\* "self.get_stories_for_day_and_user(user, date) for date in all_dates"
stories_of_dates(self, fmt, user, all_dates, hash_seed) ==
    [d \in 1 .. Len(all_dates) |->
        get_stories_for_day_and_user(self, fmt, user, all_dates[d], hash_seed)]

\* What the first of the calls that raise raises, None when none of them does.
first_raised(results) ==
    IF \A d \in 1 .. Len(results) : ~IsExc(results[d]) THEN None
    ELSE results[CHOOSE d \in 1 .. Len(results) :
                     /\ IsExc(results[d])
                     /\ \A e \in 1 .. (d - 1) : ~IsExc(results[e])]

\* "[(date.strftime("%A"), self.get_stories_for_day_and_user(user, date))
\*   for date in all_dates]"
stories_contents(all_dates, stories) ==
    [d \in 1 .. Len(all_dates) |->
        <<DayNames[weekday(all_dates[d]) + 1], stories[d].text>>]

\* generate_stories_for_user after the section header: the dates of the
\* period, the stories of each date in turn, then the aligned list.  Without
\* dates no story is asked for and the list is generated of no contents.
stories_listed(fmt, all_dates, stories) ==
    IF first_raised(all_dates) # None THEN outcome(fmt, first_raised(all_dates))
    ELSE IF first_raised(stories) # None THEN outcome(fmt, first_raised(stories))
    ELSE generate_aligned_list(fmt, stories_contents(all_dates, stories))

stories_of_period(self, fmt, made, user, all_dates, hash_seed) ==
    stories_listed(made, all_dates, stories_of_dates(self, fmt, user, all_dates, hash_seed))

\* DetailedReport.generate_stories_for_user
generate_stories_for_user(self, fmt, user, hash_seed) ==
    stories_of_period(self, fmt,
                      generate_section_header(
                          fmt,
                          <<"S", "t", "o", "r", "i", "e", "s", " ", "f", "o", "r", " ">>
                              \o user.login),
                      user, get_all_dates(self.time_period), hash_seed)

\* DetailedReport.time_worked: every element it returns is a call of
\* DateUtils.format_delta_as_hours; without total and without dates
\* (num_days <= 0) there is no element
time_worked_on(all_dates) ==
    IF first_raised(all_dates) # None THEN first_raised(all_dates)
    ELSE IF all_dates = <<>> THEN list(<<>>)
    ELSE format_delta_as_hours

DetailedReport_time_worked(self, user, total) ==
    IF total THEN format_delta_as_hours
    ELSE time_worked_on(get_all_dates(self.time_period))

\* DetailedReport.generate_hours: the rows of the users, if any, and the row
\* 'everyone' call self.time_worked(...) before the table is generated
generate_hours(self, fmt) ==
    IF IsExc(DetailedReport_time_worked(self, None, FALSE))
    THEN outcome(fmt, DetailedReport_time_worked(self, None, FALSE))
    ELSE outcome(fmt, DetailedReport_time_worked(self, None, TRUE))

\* DetailedReport.generate_report: the header, the hours, and the stories of
\* each user once generate_hours has returned
DetailedReport_generate_report(self, fmt) ==
    generate_hours(self, generate_header(fmt, self.header))

\* AggregateReport.generate_report_for_period, up to the first call of
\* DateUtils.format_delta_as_hours
generate_report_for_period(time_period) ==
    IF IsExc(time_worked(time_period, None, None, None, FALSE))
    THEN time_worked(time_period, None, None, None, FALSE)
    ELSE IF IsExc(time_worked(time_period, None, None, None, TRUE))
    THEN time_worked(time_period, None, None, None, TRUE)
    ELSE format_delta_as_hours

\* AggregateReport.generate_report: the header, then the first period's row
\* or, without periods, the empty table and the header of the total
AggregateReport_generate_report(self, fmt) ==
    IF self.time_periods = <<>>
    THEN outcome(generate_table(generate_header(fmt, self.header), <<>>, FALSE).self,
                 format_delta_as_hours)
    ELSE outcome(generate_header(fmt, self.header),
                 generate_report_for_period(self.time_periods[1]))

\* report.generate_report()
generate_report(self, fmt) ==
    IF self.cls = "AggregateReport" THEN AggregateReport_generate_report(self, fmt)
    ELSE DetailedReport_generate_report(self, fmt)
(***************************************************************************)
(* The formatters and the reports under their operations.  Either a        *)
(* formatter of one of the three classes is constructed and its            *)
(* capabilities are called in any order; or a ReportCreator is constructed *)
(* for a project without tasks, for one week or for two weeks, and         *)
(* create_reports and the reports' generate_report are called in any       *)
(* order.  heap holds the formatters, prev is the creator, if any, res the *)
(* last call and what it returned or raised.                               *)
(***************************************************************************)
\* At most MaxFormatters formatters; a capability or a report is called while
\* the formatters hold at most MaxPieces pieces together.
MaxFormatters == 3
MaxPieces == 1

\* A task with a story and a text, of user 22 on the first day of the week.
StoryTask == described(WorkedTask(22, 0, FALSE, TRUE), <<"s">>, <<"a", " ", " ", "b">>)

\* args.time is not given, "w7" for one week and "w7-w8" for two.
RenderTime(weeks) ==
    IF weeks = 0 THEN None
    ELSE [value |-> IF weeks = 1 THEN <<"w", "7">> ELSE <<"w", "7", "-", "w", "8">>]

RenderArgs(fmt, story, weeks) ==
    [time |-> RenderTime(weeks), project |-> Given(<<"c", "o", "o", "l">>), customer |-> None,
     user |-> None, task_type |-> None, formatter |-> fmt, story |-> story]

\* The creator of the mode PROJECT for a project without tasks; the creator
\* once create_from_string has returned the weeks, the first with the tasks.
RenderCreator(fmt, story, weeks, tasks) ==
    IF weeks = 0
    THEN ReportCreator(LoadedRegistry, RenderArgs(fmt, story, weeks), FirstTokenYear + 1,
                       RunDay, <<>>, {}).returned
    ELSE creator_for_time(
             RenderArgs(fmt, story, weeks),
             to_task_filter(LoadedRegistry, RenderArgs(fmt, story, weeks), RunDay,
                            <<>>).returned,
             list(set_tasks_for_all(FetchWeeks(weeks), <<tasks>>, 1)))

\* "self.formatter()": a new formatter object, known by its place on the heap
allocated_formatter_shared(formatters, fmt) ==
    IF formatters = <<>> THEN [heap |-> <<fmt>>, ref |-> 1]
    ELSE [heap |-> formatters, ref |-> 1]

allocated_formatter(formatters, fmt) ==
    [heap |-> Append(formatters, fmt), ref |-> Len(formatters) + 1]

\* create_parent_report, the report holding its formatter by reference
parent_report_on(formatters, self) ==
    IF create_parent_report(self) = None \/ IsExc(create_parent_report(self))
    THEN [heap |-> formatters, report |-> create_parent_report(self)]
    ELSE [heap |-> allocated_formatter(formatters, formatter(self)).heap,
          report |-> [create_parent_report(self) EXCEPT
                         !.formatter = allocated_formatter(formatters, formatter(self)).ref]]

\* "for period in self.time_periods: self.reports.append(DetailedReport(...))"
RECURSIVE append_reports_on(_, _, _)
append_reports_on(formatters, self, i) ==
    IF i > Len(self.time_periods) THEN [heap |-> formatters, creator |-> self]
    ELSE append_reports_on(
             allocated_formatter(formatters, formatter(self)).heap,
             [self EXCEPT !.reports =
                 Append(@, DetailedReport(
                               self.time_periods[i], self.parent_report,
                               allocated_formatter(formatters, formatter(self)).ref,
                               self.args.story))],
             i + 1)

\* ReportCreator.create_reports
create_reports_on(formatters, self) ==
    append_reports_on(parent_report_on(formatters, self).heap,
                      [self EXCEPT !.parent_report =
                          parent_report_on(formatters, self).report],
                      1)

\* The reports of the creator: the parent report, if any, is report 0, the
\* detailed reports are the reports 1, 2, ...
Reports ==
    IF prev = None THEN {}
    ELSE (IF prev.parent_report = None THEN {} ELSE {0}) \cup (1 .. Len(prev.reports))

Report(r) == IF r = 0 THEN prev.parent_report ELSE prev.reports[r]

RECURSIVE pieces_held(_, _)
pieces_held(formatters, i) ==
    IF i > Len(formatters) THEN 0
    ELSE Len(formatters[i].pieces) + pieces_held(formatters, i + 1)

RoomForPieces == pieces_held(heap, 1) <= MaxPieces

FormatterClasses == {"TextFormatter", "TwikiFormatter", "MarkdownFormatter"}

InitRender ==
    /\ pc = "start"
    /\ arg = None
    /\ res = None
    /\ instances = NoInstances
    /\ period = None
    /\ \/ /\ prev = None
          /\ \E cls \in FormatterClasses : heap = <<Formatter(cls)>>
       \/ /\ heap = <<>>
          /\ \E fmt \in {"text", "twiki", "markdown"}, weeks \in 0 .. 2,
                tasks \in {<<>>, <<StoryTask>>} :
                 prev = RenderCreator(fmt, TRUE, weeks, tasks)

\* A call on the formatter at place self of the heap, of a report or of the
\* formatter itself: what it was given, what it returned and what it raised.
Rendered(op, report, self, input, done, returned) ==
    /\ pc' = op
    /\ res' = [report |-> report, self |-> self, input |-> input,
               returned |-> returned, raised |-> done.raised]
    /\ heap' = [heap EXCEPT ![self] = done.self]
    /\ UNCHANGED <<arg, prev, instances, period>>

\* "return self.formatter.flatten()", unless the call raised before
Returned_flattened(op, report, self, done) ==
    Rendered(op, report, self, None, done,
             IF done.raised = None THEN [text |-> flatten(done.self)] ELSE None)

\* Each call of create_reports gives every period one more report.
CreateReportsOnCall ==
    /\ prev # None
    /\ Len(create_reports_on(heap, prev).heap) <= MaxFormatters
    /\ pc' = "create_reports"
    /\ heap' = create_reports_on(heap, prev).heap
    /\ prev' = create_reports_on(heap, prev).creator
    /\ res' = None
    /\ UNCHANGED <<arg, instances, period>>

GenerateReportCall ==
    /\ RoomForPieces
    /\ \E r \in Reports :
           Returned_flattened("generate_report", r, Report(r).formatter,
                              generate_report(Report(r), heap[Report(r).formatter]))

\* The texts, tables and lists the capabilities are called with.
RenderHeader == <<"h">>

RenderTables ==
    {[table |-> <<>>, has_headers |-> FALSE],
     [table |-> <<<<<<"a">>, <<"b">>>>>>, has_headers |-> TRUE]}

RenderContents == {<<>>, <<<<<<"M", "o", "n">>, <<"a">>>>>>}

\* The formatter constructed directly.
Formatters == IF prev = None THEN 1 .. Len(heap) ELSE {}

GenerateHeaderCall ==
    /\ RoomForPieces
    /\ \E self \in Formatters :
           Rendered("generate_header", -1, self, RenderHeader,
                    outcome(generate_header(heap[self], RenderHeader), None), None)

GenerateSectionHeaderCall ==
    /\ RoomForPieces
    /\ \E self \in Formatters :
           Rendered("generate_section_header", -1, self, RenderHeader,
                    outcome(generate_section_header(heap[self], RenderHeader), None), None)

GenerateLargeTextCall ==
    /\ RoomForPieces
    /\ \E self \in Formatters :
           Rendered("generate_large_text", -1, self, RenderHeader,
                    outcome(generate_large_text(heap[self], RenderHeader), None), None)

GenerateTableCall ==
    /\ RoomForPieces
    /\ \E self \in Formatters, input \in RenderTables :
           Rendered("generate_table", -1, self, input,
                    generate_table(heap[self], input.table, input.has_headers), None)

GenerateAlignedListCall ==
    /\ RoomForPieces
    /\ \E self \in Formatters, contents \in RenderContents :
           Rendered("generate_aligned_list", -1, self, contents,
                    generate_aligned_list(heap[self], contents), None)

\* flatten, of the formatter constructed directly or of a report's formatter
FlattenCall ==
    /\ pc' = "flatten"
    /\ \E self \in 1 .. Len(heap) :
           res' = [report |-> -1, self |-> self, input |-> None,
                   returned |-> [text |-> flatten(heap[self])], raised |-> None]
    /\ UNCHANGED <<arg, prev, heap, instances, period>>

NextRender ==
    \/ CreateReportsOnCall
    \/ GenerateReportCall
    \/ GenerateHeaderCall
    \/ GenerateSectionHeaderCall
    \/ GenerateLargeTextCall
    \/ GenerateTableCall
    \/ GenerateAlignedListCall
    \/ FlattenCall

SpecRender == InitRender /\ [][NextRender]_vars
(***************************************************************************)
(* A DetailedReport over a week with tasks, in a run of the program with a *)
(* hash seed.  period is the week, prev the report, heap its formatter,    *)
(* arg the environment of the run; get_stories_for_day_and_user,           *)
(* generate_stories_for_user and generate_report are called in any order,  *)
(* and the program can be run again on the same tasks.                     *)
(***************************************************************************)
\* At most MaxStoryTasks tasks in the week.
MaxStoryTasks == 4

\* Tasks of the week's first two days: two of the same user, day, story and
\* text; one without story; one of another user; two of the next day.
StoryTasks ==
    <<described(WorkedTask(22, 0, FALSE, TRUE), <<"s">>, <<"a", " ", " ", "b">>),
      described(WorkedTask(22, 0, TRUE, TRUE), <<"s">>, <<"a", " ", " ", "b">>),
      described(WorkedTask(22, 0, FALSE, FALSE), <<>>, <<"c">>),
      described(WorkedTask(23, 0, FALSE, TRUE), <<"s">>, <<"d">>),
      described(WorkedTask(22, 1, FALSE, TRUE), <<>>, <<"\t", "e", " ">>),
      described(WorkedTask(22, 1, TRUE, TRUE), <<"s">>, <<"f">>)>>

\* The tasks at the places chosen, in the order of StoryTasks.
RECURSIVE chosen_tasks(_, _)
chosen_tasks(places, i) ==
    IF i > Len(StoryTasks) THEN <<>>
    ELSE (IF i \in places THEN <<StoryTasks[i]>> ELSE <<>>) \o chosen_tasks(places, i + 1)

StoryTaskLists ==
    {chosen_tasks(places, 1) :
        places \in {p \in SUBSET (1 .. Len(StoryTasks)) : Cardinality(p) <= MaxStoryTasks}}

\* The hash seeds of a run in which the sets of these members are iterated:
\* an order for each of them.
RECURSIVE HashSeeds(_)
HashSeeds(member_lists) ==
    IF member_lists = {} THEN {<<>>}
    ELSE LET members == CHOOSE members \in member_lists : TRUE
         IN  {(members :> order) @@ hash_seed :
                 order \in Orderings(1 .. Len(members)),
                 hash_seed \in HashSeeds(member_lists \ {members})}

\* Week 7 of 2023 with the tasks fetched for it.
StoryWeek(tasks) == set_tasks_for_all(FetchWeeks(1), <<tasks>>, 1)[1]

\* The users and the days that stories are asked for.
StoryUsers == {PoolUser(user_id) : user_id \in PeriodUsers}

StoryDays == 1 .. 2

\* The sets that the report makes of the stories of a user and a day.
StorySets(self, fmt) ==
    {set(all_stories(self.include_story, fmt,
                     filter_tasks(self.time_period, date_add(self.time_period.start_date, d),
                                  None, user, FALSE).items, 1)) :
        user \in StoryUsers, d \in 0 .. 6}

InitStories ==
    /\ pc = "start"
    /\ res = None
    /\ instances = NoInstances
    /\ \E tasks \in StoryTaskLists : period = StoryWeek(tasks)
    /\ \E cls \in FormatterClasses : heap = <<Formatter(cls)>>
    /\ \E include_story \in BOOLEAN : prev = DetailedReport(period, None, 1, include_story)
    /\ \E hash_seed \in HashSeeds(StorySets(prev, heap[1])) :
           arg = [PYTHONHASHSEED |-> hash_seed]

GetStoriesCall ==
    /\ pc' = "get_stories_for_day_and_user"
    /\ \E user \in StoryUsers, d \in StoryDays :
           res' = [report |-> 1, self |-> prev.formatter,
                   input |-> [user |-> user, day |-> d],
                   returned |-> get_stories_for_day_and_user(
                                    prev, heap[prev.formatter], user,
                                    get_all_dates(prev.time_period)[d], arg.PYTHONHASHSEED),
                   raised |-> None]
    /\ UNCHANGED <<arg, prev, heap, instances, period>>

GenerateStoriesForUserCall ==
    /\ RoomForPieces
    /\ \E user \in StoryUsers :
           Rendered("generate_stories_for_user", 1, prev.formatter,
                    [user |-> user, day |-> 0],
                    generate_stories_for_user(prev, heap[prev.formatter], user,
                                              arg.PYTHONHASHSEED),
                    None)

DetailedGenerateReportCall ==
    /\ RoomForPieces
    /\ Returned_flattened("generate_report", 1, prev.formatter,
                          generate_report(prev, heap[prev.formatter]))

\* The program is run again on the same tasks, in a process of its own with
\* a hash seed of its own: the week and the report are built as before, with
\* a new formatter of the same class.  res keeps what the last call of the
\* run before returned.
RunAgain ==
    /\ \E hash_seed \in HashSeeds(DOMAIN arg.PYTHONHASHSEED) :
           arg' = [PYTHONHASHSEED |-> hash_seed]
    /\ heap' = <<Formatter(heap[prev.formatter].cls)>>
    /\ UNCHANGED <<pc, res, prev, instances, period>>

NextStories ==
    \/ RunAgain
    \/ GetStoriesCall
    \/ GenerateStoriesForUserCall
    \/ DetailedGenerateReportCall

SpecStories == InitStories /\ [][NextStories]_vars

(***************************************************************************)
(* TwikiFormatter.generate_table as a function of the table: arg is a      *)
(* table and whether its first row is a header, heap a new TwikiFormatter, *)
(* and the one call of generate_table leaves the rows in the formatter.    *)
(***************************************************************************)
\* Tables of up to MaxTableRows rows of 2 .. MaxTableCells cells.
MaxTableRows == 21
MaxTableCells == 3

\* The cell in row r and column c: the number of the row, then c times "x".
TableCell(r, c) == Dec(r) \o [i \in 1 .. c |-> "x"]

TableOf(rows, cells) == [r \in 1 .. rows |-> [c \in 1 .. cells |-> TableCell(r, c)]]

InitTable ==
    /\ pc = "start"
    /\ res = None
    /\ prev = None
    /\ period = None
    /\ instances = NoInstances
    /\ heap = <<Formatter("TwikiFormatter")>>
    /\ \E rows \in 0 .. MaxTableRows, cells \in 2 .. MaxTableCells, has_headers \in BOOLEAN :
           arg = [table |-> TableOf(rows, cells), has_headers |-> has_headers]

TwikiGenerateTableCall ==
    /\ pc = "start"
    /\ Rendered("generate_table", -1, 1, arg,
                generate_table(heap[1], arg.table, arg.has_headers), None)

NextTable == TwikiGenerateTableCall

SpecTable == InitTable /\ [][NextTable]_vars


(***************************************************************************)
(* A session with the server: PHPReport.login fills the empty registry     *)
(* from the answers to its requests; then tasks are fetched for a filter,  *)
(* and objects are made of responses and of single elements.  An exception *)
(* that a call raises ends the session.                                    *)
(***************************************************************************)
\* Objects are made while the heap holds fewer than MaxSessionObjects.
MaxSessionObjects == 8

\* The answers to the login request: with a session id, without one, and
\* with an empty one.
SessionLoginAnswers ==
    {LoginResponse, <<Field("message", <<"n", "o">>)>>, <<Field("sessionId", <<>>)>>}

\* The answers for the projects, the users and the customers: those of
\* LoginResponses, or with a user whose id is no number.
SessionLoginResponses ==
    {LoginResponses,
     [LoginResponses EXCEPT ![2] = <<Child("user", <<Field("id", <<"x">>)>>)>>]}

\* The element of a task of project 230 logged by the user user_id.
SessionTask(i, user_id, date) ==
    <<Field("id", Dec(200290 + i)), Field("date", date),
      Field("userId", Dec(user_id)), Field("projectId", Dec(230))>>

\* The responses with tasks: none, tasks of the registered users 22 and 23, a
\* task of a user 24 that is not registered, and a task whose date does not
\* parse.
SessionContents ==
    {<<>>,
     <<Child("task", SessionTask(1, 22, date_text(RunDay)))>>,
     <<Child("task", SessionTask(1, 22, date_text(RunDay))),
       Child("task", SessionTask(2, 23, date_text(RunDay)))>>,
     <<Child("task", SessionTask(1, 22, date_text(RunDay))),
       Child("task", SessionTask(3, 24, date_text(RunDay)))>>,
     <<Child("task", SessionTask(4, 22, <<"2", "0", "1", "7">>))>>}

\* The elements of one object of each class.
SessionElements(cls) ==
    IF cls = "Task" THEN {SessionTask(1, 22, date_text(RunDay)),
                          SessionTask(3, 24, date_text(RunDay))}
    ELSE IF cls = "Project"
    THEN {<<Field("id", Dec(232)), Field("customerId", Dec(99)),
            Field("init", date_text(RunDay))>>,
          <<Field("id", Dec(230)), Field("init", <<"x">>), Field("init", date_text(RunDay))>>}
    ELSE IF cls = "User" THEN {<<Field("id", Dec(24)), Field("login", <<"n", "e", "w">>)>>,
                               <<Field("login", TestUser)>>}
    ELSE {<<Field("id", Dec(99)), Field("name", VeryOld)>>, <<Field("id", <<"9", " ", "9">>)>>}

tag_of(cls) ==
    IF cls = "Task" THEN "task"
    ELSE IF cls = "Project" THEN "project"
    ELSE IF cls = "User" THEN "user"
    ELSE "customer"

\* The responses with the elements of a class under its tag and, among them,
\* an element under another tag, which is passed over.
SessionResponses(cls) ==
    {<<Child(tag_of(cls), e), Child("other", e), Child(tag_of(cls), f)>> :
        e \in SessionElements(cls), f \in SessionElements(cls)}

SessionCall(kind, cls, input) == [kind |-> kind, cls |-> cls, input |-> input]

InitLogin ==
    /\ pc = "start"
    /\ arg = SessionCall("none", "", <<>>)
    /\ res = [returned |-> <<>>, raised |-> ""]
    /\ prev = None
    /\ NoObjects

\* The state takes over the registry the call left; the session goes on when
\* the call raised nothing.
Made(st, returned) ==
    /\ heap' = st.heap
    /\ instances' = st.instances
    /\ res' = [returned |-> returned, raised |-> st.raised]
    /\ pc' = IF st.raised = "" THEN "session" ELSE "raised"
    /\ UNCHANGED <<prev, period>>

MadeList(out) == Made(out.st, out.returned)

\* PHPReport.login(): it returns nothing.
LoginCall ==
    /\ pc = "start"
    /\ \E response \in SessionLoginAnswers, responses \in SessionLoginResponses :
           /\ arg' = SessionCall("login", "", response)
           /\ Made(login(Registry, response, responses), <<>>)

\* PHPReport.get_tasks_for_task_filter(task_filter): res.returned is the list
\* of the tasks made until the call returned or raised.
GetTasksForTaskFilterCall ==
    /\ pc = "session"
    /\ Len(heap) < MaxSessionObjects
    /\ \E contents \in SessionContents :
           /\ arg' = SessionCall("get_tasks_for_task_filter", "Task", contents)
           /\ MadeList(get_tasks_for_task_filter(Registry, TaskFilter(ProjectScope),
                                                 contents))

\* PHPReport.create_objects_from_response(response, cls, tag)
CreateObjectsFromResponseCall ==
    /\ pc = "session"
    /\ Len(heap) < MaxSessionObjects
    /\ \E cls \in Classes :
           \E response \in SessionResponses(cls) :
               /\ arg' = SessionCall("create_objects_from_response", cls, response)
               /\ MadeList(create_objects_from_response(Registry, response, cls,
                                                        tag_of(cls)))

\* cls.from_element(element): res.returned is the object made, if any.
FromElementCall ==
    /\ pc = "session"
    /\ Len(heap) < MaxSessionObjects
    /\ \E cls \in Classes :
           \E element \in SessionElements(cls) :
               /\ arg' = SessionCall("from_element", cls, element)
               /\ Made(from_element(Registry, cls, element),
                       <<from_element(Registry, cls, element).ref>>)

NextLogin ==
    LoginCall \/ GetTasksForTaskFilterCall \/ CreateObjectsFromResponseCall
        \/ FromElementCall

SpecLogin == InitLogin /\ [][NextLogin]_vars

\* A task of a user that is not registered raises KeyError, and the task
\* stays registered under its id.
SessionKeyErrorLeavesTask ==
    (pc = "raised" /\ res.raised = "KeyError" /\ arg.cls = "Task")
        => 200293 \in DOMAIN instances["Task"]

(***************************************************************************)
(* Claims about the week buckets, under SpecWeeks and SpecProject.         *)
(***************************************************************************)
WeeksCallDone == pc = "done" /\ arg.kind = "span"
ProjectCallDone == pc = "done" /\ arg.kind = "project"

\* The Monday of a date's week, by its ordinal.
RefMondayOrdinal(date) == toordinal(date) - weekday(date)

\* The window [start_date, start_date + 7 days) of a bucket holds the date.
InWindow(week, date) ==
    /\ toordinal(week.start_date) <= toordinal(date)
    /\ toordinal(date) < toordinal(week.start_date) + 7

\* The places <<w, j>> of the buckets at which a task is filed.
PlacesOf(weeks, task) ==
    {p \in (1 .. Len(weeks)) \X (1 .. MaxTasks) :
        /\ p[2] <= Len(weeks[p[1]].tasks.items)
        /\ weeks[p[1]].tasks.items[p[2]] = task}

RECURSIVE RecordsFiled(_, _)
RecordsFiled(weeks, w) ==
    IF w > Len(weeks) THEN 0 ELSE Len(weeks[w].tasks.items) + RecordsFiled(weeks, w + 1)

\* No exception, and every task is filed once, in the bucket whose window holds
\* its date; nothing else is filed.
Partitioned(tasks, result) ==
    /\ ~IsExc(result)
    /\ RecordsFiled(result.items, 1) = Len(tasks)
    /\ \A i \in 1 .. Len(tasks) :
           /\ Cardinality(PlacesOf(result.items, tasks[i])) = 1
           /\ \A p \in PlacesOf(result.items, tasks[i]) :
                  InWindow(result.items[p[1]], tasks[i].date)

\* C11: create_for_entire_project files every record of a non-empty fetch in
\* exactly one bucket, the one whose window [start_date, start_date + 7 days)
\* holds the record's date, and raises nothing; for an empty fetch the result is
\* the empty list of buckets.
C11_EveryRecordInExactlyOneBucket ==
    ProjectCallDone =>
        IF arg.tasks = <<>> THEN res = list(<<>>)
        ELSE Partitioned(arg.tasks, res)

\* C12: for start <= end, get_weeks_in_date_range(start, end) is a non-empty
\* list of Mondays from the Monday of start's week to the Monday of end's week
\* in steps of 7 days, and create_array_of_weeks_between_dates builds one empty
\* bucket of 7 days per Monday, in that order, so the buckets are contiguous,
\* do not overlap and ascend, also across a year boundary.
C12_WeeksAreConsecutiveMondays ==
    WeeksCallDone =>
        /\ ~IsExc(res.week_dates)
        /\ ~IsExc(res.weeks)
        /\ LET dates == res.week_dates.items
               weeks == res.weeks.items
           IN  /\ Len(dates) >= 1
               /\ toordinal(dates[1]) = RefMondayOrdinal(arg.start)
               /\ toordinal(dates[Len(dates)]) = RefMondayOrdinal(arg.end)
               /\ \A i \in 1 .. Len(dates) : weekday(dates[i]) = 0
               /\ \A i \in 1 .. (Len(dates) - 1) :
                      toordinal(dates[i + 1]) = toordinal(dates[i]) + 7
               /\ Len(weeks) = Len(dates)
               /\ \A i \in 1 .. Len(weeks) :
                      /\ weeks[i].start_date = dates[i]
                      /\ weeks[i].num_days = 7
                      /\ weeks[i].tasks = list(<<>>)
               /\ \A i \in 1 .. (Len(weeks) - 1) :
                      toordinal(weeks[i + 1].start_date)
                          = toordinal(weeks[i].start_date) + weeks[i].num_days

\* A range of dates given as datetime.date whose buckets cross a year boundary.
C12_Witness ==
    /\ WeeksCallDone
    /\ is_date_only(arg.start)
    /\ ~IsExc(res.weeks)
    /\ Len(res.weeks.items) = 3
    /\ res.weeks.items[1].start_date.year < res.weeks.items[3].start_date.year
    /\ res.weeks.items[1].week = 52
    /\ res.weeks.items[2].week = 53
    /\ res.weeks.items[3].week = 1

\* The days between the earliest and the latest record date.
DaysApart(dates) ==
    LET ords == {toordinal(dates[i]) : i \in 1 .. Len(dates)}
    IN  (CHOOSE hi \in ords : \A o \in ords : o <= hi)
        - (CHOOSE lo \in ords : \A o \in ords : lo <= o)

\* C13: when the earliest and the latest record date are 9 days apart,
\* create_for_entire_project returns exactly 2 buckets, whatever the weekday of
\* the earliest date.
C13_TenDaysGiveTwoBuckets ==
    ProjectCallDone /\ arg.tasks # <<>> /\ DaysApart(arg.dates) = 9 =>
        ~IsExc(res) /\ Len(res.items) = 2

(***************************************************************************)
(* Claims about Task's times, under SpecTask.                              *)
(***************************************************************************)
TaskDone == pc = "done" /\ arg.kind = "task" /\ res.raised = ""

\* The seconds since 0:00 of a time <<hour, minute>>.
SecondsOfDay(hm) == hm[1] * 3600 + hm[2] * 60

\* C14: a task reported to end at 0:00 has its end moved forward by 24 hours,
\* unless it is reported to start at 0:00 too, and then it stays zero hours
\* long; a start at another minute of the midnight hour is moved like any other.
C14_MidnightEndIsNextDay ==
    TaskDone /\ arg.end = <<0, 0>> =>
        IF arg.init = <<0, 0>>
        THEN /\ heap[res.ref].end_time = ArgTaskFields.end_time
             /\ length(heap[res.ref]) = [days |-> 0, seconds |-> 0]
        ELSE /\ toordinal(heap[res.ref].end_time) = toordinal(ArgTaskFields.end_time) + 1
             /\ heap[res.ref].end_time.hour = 0
             /\ heap[res.ref].end_time.minute = 0
             /\ length(heap[res.ref])
                    = [days |-> 0, seconds |-> 86400 - SecondsOfDay(arg.init)]

\* C15: a task reported with start and end on the same day, the end not before
\* the start or the end at 0:00, has end_time >= init_time once constructed: its
\* length is not negative.
C15_LengthNeverNegative ==
    TaskDone /\ (SecondsOfDay(arg.end) >= SecondsOfDay(arg.init) \/ arg.end = <<0, 0>>) =>
        length(heap[res.ref]).days >= 0

\* C16: Task() has init_time at the default date and end_time one day after the
\* default date, as TestTask.test_empty asserts.
C16_DefaultTaskEndsNextDay ==
    TaskDone /\ arg.default =>
        /\ heap[res.ref].init_time = DEFAULT_DATE
        /\ heap[res.ref].end_time = [DEFAULT_DATE EXCEPT !.day = 2]

(***************************************************************************)
(* Claims about the identity registry, under SpecRegistry.                 *)
(***************************************************************************)
\* The objects of a class constructed with an id, and the latest of some objects.
InstancesOf(cls, id) ==
    {o \in 1 .. Len(heap) : heap[o].cls = cls /\ heap[o].phpreport_id = id}

Latest(objs) == CHOOSE o \in objs : \A p \in objs : p <= o

AllIds == RegistryIds \cup {99}

\* Each class's registry knows exactly the ids its objects were constructed
\* with, each with the latest object of that id.
RegistryKnowsLatest ==
    \A cls \in Classes, id \in AllIds :
        IF InstancesOf(cls, id) = {} THEN id \notin DOMAIN instances[cls]
        ELSE /\ id \in DOMAIN instances[cls]
             /\ instances[cls][id] = Latest(InstancesOf(cls, id))

\* find returned the latest object of its class and id; it raised KeyError only
\* for an id other than -1 of which the class has no object.
FindReturnsLatest ==
    arg.kind = "find" =>
        IF InstancesOf(arg.cls, arg.phpreport_id) = {}
        THEN res.raised = "KeyError" /\ arg.phpreport_id # -1
        ELSE res.raised = "" /\ res.ref = Latest(InstancesOf(arg.cls, arg.phpreport_id))

\* A constructed Task is linked to the latest User and Project of its user_id
\* and project_id, a Project to the latest Customer of its customer_id: for the
\* id -1, the placeholders.
NewObjectIsLinked ==
    arg.kind = "new" /\ res.raised = "" =>
        /\ res.ref = Latest(InstancesOf(arg.cls, arg.phpreport_id))
        /\ arg.cls = "Task" =>
               /\ heap[res.ref].user = Latest(InstancesOf("User", arg.user_id))
               /\ heap[res.ref].project = Latest(InstancesOf("Project", arg.project_id))
        /\ arg.cls = "Project" =>
               heap[res.ref].customer = Latest(InstancesOf("Customer", arg.customer_id))

\* A find of an id its class knows constructs nothing and returns the registered
\* object; no call changes what another class's registry holds for an id.
RegistryStep ==
    /\ arg'.kind = "find" /\ arg'.phpreport_id \in DOMAIN instances[arg'.cls] =>
           /\ heap' = heap
           /\ instances' = instances
           /\ res'.ref = instances[arg'.cls][arg'.phpreport_id]
    /\ \A cls \in Classes \ {arg'.cls} :
           \A id \in DOMAIN instances[cls] : instances'[cls][id] = instances[cls][id]

\* C17: for each class, find(i) returns the most recently constructed object of
\* that class with id i, the very object; the registries are per class; find(-1)
\* on a class without an object of id -1 constructs and registers a default
\* placeholder, which later find(-1) calls return; a constructed Task or Project
\* is linked to the objects User.find, Project.find and Customer.find give.
C17_FindReturnsLatestOfItsClass ==
    /\ [](RegistryKnowsLatest /\ FindReturnsLatest /\ NewObjectIsLinked)
    /\ [][RegistryStep]_vars

\* Task.find(-1) constructed the placeholder task and its placeholders, after
\* User(22) was constructed twice.
C17_Witness ==
    /\ arg.kind = "find"
    /\ arg.cls = "Task"
    /\ arg.phpreport_id = -1
    /\ res.raised = ""
    /\ Cardinality(InstancesOf("User", 22)) = 2
    /\ heap[res.ref].cls = "Task"
    /\ heap[heap[res.ref].user].phpreport_id = -1
    /\ heap[heap[heap[res.ref].project].customer].cls = "Customer"

(***************************************************************************)
(* Claims about a PeriodOfWork's tasks and users, under SpecPeriod.        *)
(***************************************************************************)
TimeWorkedDone == pc = "time_worked"

\* The records of the bucket: a period constructed without tasks (tasks=None),
\* on which set_tasks was never called, has none.
RecordsOfPeriod == IF period.tasks = None THEN <<>> ELSE period.tasks.items

\* The day that the filters name: an explicit date first, else the day
\* day_offset days after the period's start, else no day.
DayAskedFor ==
    IF arg.date # None THEN arg.date
    ELSE IF arg.day_offset # None THEN date_add(period.start_date, arg.day_offset.value)
    ELSE None

MatchesEveryFilter(task) ==
    /\ DayAskedFor # None => toordinal(task.date) = toordinal(DayAskedFor)
    /\ arg.user # None => task.user = arg.user
    /\ arg.only_onsite => task.onsite

MatchingPlaces ==
    {i \in 1 .. Len(RecordsOfPeriod) : MatchesEveryFilter(RecordsOfPeriod[i])}

\* The seconds from a task's init_time to its end_time.
SecondsOfTask(task) ==
    (toordinal(task.end_time) - toordinal(task.init_time)) * 86400
        + (task.end_time.hour - task.init_time.hour) * 3600
        + (task.end_time.minute - task.init_time.minute) * 60

RECURSIVE SecondsOfPlaces(_)
SecondsOfPlaces(places) ==
    IF places = {} THEN 0
    ELSE LET i == CHOOSE j \in places : TRUE
         IN  SecondsOfTask(RecordsOfPeriod[i]) + SecondsOfPlaces(places \ {i})

\* C18: time_worked returns the sum of the lengths of exactly the records of
\* the bucket that match every filter given (the day, the user, onsite), zero
\* when none matches, and so for a bucket without records; day_offset stands
\* for the day that many days after the start, and an explicit date goes
\* before it.  (time_worked assigns to no attribute of the period: it sums over
\* the new list that filter_tasks builds.)
C18_TimeWorkedSumsMatchingTasks ==
    TimeWorkedDone =>
        /\ ~IsExc(res)
        /\ res.days * 86400 + res.seconds = SecondsOfPlaces(MatchingPlaces)
        /\ res.seconds \in 0 .. 86399
        /\ MatchingPlaces = {} => res = [days |-> 0, seconds |-> 0]
        /\ res = time_worked(period, DayAskedFor, None, arg.user, arg.only_onsite)

\* The same of the periods that have a list of tasks, the only ones for which
\* filter_tasks has something to iterate over.
TimeWorkedOfAListIsSumOfMatching ==
    period.tasks # None => C18_TimeWorkedSumsMatchingTasks

\* The users that have a task among the period's tasks.
UsersOfTasks ==
    IF period.tasks = None THEN {}
    ELSE {period.tasks.items[i].user : i \in 1 .. Len(period.tasks.items)}

\* C19: after the construction of a period, with a list of tasks or without,
\* and after any calls of set_tasks, add_task and add_task_if_starts_in_period,
\* get_users() is the set of the users that have a task among the period's
\* tasks: none is missing and none is left from tasks that were replaced.
C19_UsersAreThoseOfTheTasks == get_users(period) = UsersOfTasks

(***************************************************************************)
(* Claims about ReportCreator's modes, under SpecReport.                   *)
(***************************************************************************)
ReportDone == pc # "call" /\ arg.kind = "report"

\* The start and end dates that args.time resolves to.
ResolvedDates == date_range_from_string(arg.args.time.value, arg.now)

SameIsoWeek(date_a, date_b) ==
    year_and_week_number(date_a) = year_and_week_number(date_b)

\* The search strings resolve to a filter: to_task_filter returns, and the
\* construction goes on to choose the mode.
FilterResolved ==
    ~IsExc(to_task_filter(LoadedRegistry, arg.args, arg.today, arg.answers).returned)

ModeChosenAtConstruction ==
    ReportDone /\ FilterResolved =>
        IF no_time(arg.args.time) THEN Created /\ res.mode = "PROJECT"
        ELSE IF IsExc(ResolvedDates) THEN IsExc(res)
        ELSE /\ Created
             /\ res.mode \in {"AGGREGATE", "DETAIL"}
             /\ res.mode = "AGGREGATE" <=> Len(res.time_periods) > 1
             /\ res.mode = "DETAIL" <=> Len(res.time_periods) = 1
             /\ res.mode = "DETAIL" <=> SameIsoWeek(ResolvedDates.start, ResolvedDates.end)

ParentFollowsMode ==
    ReportDone /\ pc = "create_parent_report" =>
        IF res.mode \in {"PROJECT", "AGGREGATE"}
        THEN /\ prev # None
             /\ ~IsExc(prev)
             /\ prev.cls = "AggregateReport"
        ELSE prev = None

ModeStep == Created => res'.mode = res.mode

\* C20: a ReportCreator is in one of three modes from its construction on, and
\* formatter, create_parent_report and create_reports do not change it: PROJECT
\* when no time is given, AGGREGATE when the time resolves to more than one
\* week, DETAIL when it resolves to one week, which is when the resolved start
\* and end are in the same ISO week.  create_parent_report returns an aggregate
\* report in the modes PROJECT and AGGREGATE and None in the mode DETAIL.
C20_ModeIsChosenOnceAtConstruction ==
    [](ModeChosenAtConstruction /\ ParentFollowsMode) /\ [][ModeStep]_vars
(***************************************************************************)
(* Failed constructions, under SpecRegistry.                               *)
(***************************************************************************)
\* C30: when the construction of a Task or Project fails with a look-up error,
\* for a user_id, project_id or customer_id other than -1 of which no object is
\* registered, the registries hold afterwards exactly the entries they held
\* before: find gives no partially constructed object for the failed id.
C30_FailedConstructionLeavesRegistry ==
    [][arg'.kind = "new" /\ res'.raised = "KeyError" => instances' = instances]_vars
(***************************************************************************)
(* The display label of the filter, under SpecReport.                      *)
(***************************************************************************)
\* C29: for every argument combination ArgumentParser.parse accepts, the
\* filter has a label: TaskFilter.__str__ gives the project's description, else
\* the customer's name, else the user's login, without error, so that
\* create_parent_report and create_reports build the report titles in the modes
\* AGGREGATE and DETAIL, also for a task type with a time range; and in the mode
\* PROJECT the filter carries a project: create_for_entire_project's assertion
\* holds.
C29_EveryAcceptedFilterHasALabel ==
    /\ ReportDone /\ pc = "create_parent_report" => prev # AttributeError
    /\ ReportDone /\ pc = "create_reports" => prev # AttributeError
    /\ ReportDone /\ no_time(arg.args.time) => res # AssertionError
(***************************************************************************)
(* Claims about the fetch of the tasks, under SpecFetch.                   *)
(***************************************************************************)
\* The weeks whose request could not be completed: their data is missing.
FailedRequests == {i \in 1 .. Len(arg.requests) : arg.requests[i].failed}

\* C24: fetch_tasks_for_all consumes the fetch results by position, result i
\* becoming the tasks of bucket i; when the data of a bucket is missing, so
\* that there are fewer results than buckets, the run fails with a fatal
\* error, and no bucket is left silently empty.
C24_MissingDataIsFatal ==
    arg.kind = "fetch" /\ pc # "call" =>
        /\ pc = "done"
        /\ IF FailedRequests # {} THEN res = SystemExit
           ELSE /\ ~IsExc(res)
                /\ Len(res.items) = Len(arg.periods)
                /\ \A i \in 1 .. Len(arg.periods) :
                       res.items[i].tasks = list(arg.results[i])

\* The same of the calls in which every request is answered.
AnsweredRequestsFillTheirBuckets ==
    FailedRequests = {} => C24_MissingDataIsFatal

\* A call with a request that could not be completed never gets to its end:
\* no bucket is given tasks and no error is raised.
UnansweredRequestIsWaitedFor ==
    arg.kind = "fetch" /\ pc # "call" /\ FailedRequests # {} =>
        /\ pc = "pool.map"
        /\ res = None
(***************************************************************************)
(* The totals of the detail table, under SpecPeriod.                       *)
(***************************************************************************)
Seconds(delta) == delta.days * 86400 + delta.seconds

\* The seconds the table shows for a user (None: everyone) on the day
\* day_offset days after the start (None: the Total column).
ShownSeconds(user, day_offset) ==
    Seconds(time_worked(period, None, day_offset, user, FALSE))

RECURSIVE SecondsOfUsers(_)
SecondsOfUsers(users) ==
    IF users = {} THEN 0
    ELSE LET user == CHOOSE u \in users : TRUE
         IN  ShownSeconds(user, None) + SecondsOfUsers(users \ {user})

RECURSIVE SecondsOfDays(_, _)
SecondsOfDays(user, day_offset) ==
    IF day_offset >= period.num_days THEN 0
    ELSE ShownSeconds(user, Some(day_offset)) + SecondsOfDays(user, day_offset + 1)

\* The places of the tasks dated on the day day_offset days after the start.
PlacesOfDay(day_offset) ==
    {i \in 1 .. Len(period.tasks.items) :
        toordinal(period.tasks.items[i].date)
            = toordinal(period.start_date) + day_offset}

EveryTaskIsInsideTheWindow ==
    \A i \in 1 .. Len(period.tasks.items) :
        \E day_offset \in 0 .. period.num_days - 1 : i \in PlacesOfDay(day_offset)

\* C28: in every bucket the total of the row 'everyone' is the sum of the
\* totals of the rows of the bucket's users; when every task is dated inside
\* the bucket's seven days, each row's Total is the sum of its seven daily
\* values; a task whose corrected end is past midnight counts in full on its
\* own date.
C28_TableTotalsAreConsistent ==
    period.tasks # None =>
        /\ ShownSeconds(None, None) = SecondsOfUsers(get_users(period))
        /\ EveryTaskIsInsideTheWindow =>
               \A user \in get_users(period) \cup {None} :
                   ShownSeconds(user, None) = SecondsOfDays(user, 0)
        /\ \A day_offset \in 0 .. period.num_days - 1 :
               ShownSeconds(None, Some(day_offset))
                   = SecondsOfPlaces(PlacesOfDay(day_offset))
(***************************************************************************)
(* C21: rendering never raises.  Every capability of every formatter class *)
(* and generate_report of both kinds of report return normally, whatever   *)
(* the input: no call of SpecRender leaves an exception behind.            *)
(***************************************************************************)
C21_RenderingNeverRaises ==
    pc \in {"generate_report", "generate_header", "generate_section_header",
            "generate_large_text", "generate_table", "generate_aligned_list", "flatten"}
        => res.raised = None

(***************************************************************************)
(* C25: AggregateReport.generate_report returns the text of its report,    *)
(* and its formatter has then received, after the header, a table row for  *)
(* every period of the report and the two headers of the totals.           *)
(***************************************************************************)
AggregateReportRendered ==
    /\ pc' = "generate_report"
    /\ Report(res'.report).cls = "AggregateReport"

C25_AggregateReportHasARowPerPeriod ==
    [][AggregateReportRendered =>
          /\ res'.raised = None
          /\ res'.returned # None
          /\ Len(heap'[res'.self].pieces)
                 >= Len(heap[res'.self].pieces) + 3 + Len(Report(res'.report).time_periods)]_vars

(***************************************************************************)
(* C27: a call of a capability or of generate_report changes the formatter *)
(* it is made on and no other, and changes it by appending pieces after    *)
(* the pieces it held; flatten changes nothing and returns the pieces      *)
(* joined in their order, so that two flatten calls in a row on a          *)
(* formatter return the same text; and the reports of a ReportCreator, the *)
(* parent report and the detailed reports, hold formatters of their own,   *)
(* new and without pieces when create_reports returns, so that             *)
(* generate_report of one report leaves the text of every other as it was. *)
(***************************************************************************)
IsPrefix(s, t) == Len(s) <= Len(t) /\ SubSeq(t, 1, Len(s)) = s

OnlyAppended ==
    pc' \in {"generate_report", "generate_header", "generate_section_header",
             "generate_large_text", "generate_table", "generate_aligned_list"}
        => /\ Len(heap') = Len(heap)
           /\ \A f \in 1 .. Len(heap) :
                 IF f = res'.self
                 THEN /\ heap'[f].cls = heap[f].cls
                      /\ IsPrefix(heap[f].pieces, heap'[f].pieces)
                 ELSE heap'[f] = heap[f]

FlattenKeepsThePieces ==
    pc' = "flatten"
        => /\ heap' = heap
           /\ res'.returned = [text |-> joined(heap[res'.self].pieces, 1)]
           /\ (pc = "flatten" /\ res.self = res'.self => res'.returned = res.returned)

\* The reports that a call of create_reports has made: the parent report, if
\* any, and the detailed reports it has appended.
CreatedReports ==
    (IF prev'.parent_report = None THEN {} ELSE {0})
        \cup (Len(prev.reports) + 1 .. Len(prev'.reports))

FormattersOfTheirOwn ==
    /\ \A q, r \in Reports' :
          q # r => (Report(q).formatter)' # (Report(r).formatter)'
    /\ pc' = "create_reports"
          => /\ IsPrefix(heap, heap')
             /\ \A f \in Len(heap) + 1 .. Len(heap') : heap'[f].pieces = <<>>
             /\ \A r \in CreatedReports : (Report(r).formatter)' > Len(heap)
    /\ pc' = "generate_report"
          => \A q \in Reports \ {res'.report} :
                 flatten(heap'[Report(q).formatter]) = flatten(heap[Report(q).formatter])

C27_FormattersOnlyAccumulate ==
    [][OnlyAppended /\ FlattenKeepsThePieces /\ FormattersOfTheirOwn]_vars

\* generate_report of one report has returned while another report of the
\* creator holds the pieces of its own generate_report.
C27_OneReportRenderedAfterAnother ==
    /\ pc = "generate_report"
    /\ heap[res.self].pieces # <<>>
    /\ \E q \in Reports \ {res.report} : heap[Report(q).formatter].pieces # <<>>

(***************************************************************************)
(* C26: the text of get_stories_for_day_and_user for a user and a day is,  *)
(* word for word, the descriptions of the tasks of that user on that day,  *)
(* every different description once however many tasks repeat it, in some  *)
(* order, with single spaces between the words and none around them; no   *)
(* word of a task of another user or of another day is in it.  The         *)
(* description of a task is its text, after the story in the mark-up of    *)
(* the formatter and a space when stories are included and the task has a  *)
(* story.                                                                  *)
(***************************************************************************)
\* The words of a text: its runs of characters that are not whitespace.
RECURSIVE WordsFrom(_, _, _)
WordsFrom(text, i, word) ==
    IF i > Len(text) THEN (IF word = <<>> THEN <<>> ELSE <<word>>)
    ELSE IF text[i] \in Whitespace
    THEN (IF word = <<>> THEN <<>> ELSE <<word>>) \o WordsFrom(text, i + 1, <<>>)
    ELSE WordsFrom(text, i + 1, Append(word, text[i]))

Words(text) == WordsFrom(text, 1, <<>>)

RECURSIVE WordsOfAll(_, _)
WordsOfAll(texts, i) ==
    IF i > Len(texts) THEN <<>> ELSE Words(texts[i]) \o WordsOfAll(texts, i + 1)

RECURSIVE SpacedWords(_, _)
SpacedWords(words, i) ==
    IF i > Len(words) THEN <<>>
    ELSE (IF i > 1 THEN <<" ">> ELSE <<>>) \o words[i] \o SpacedWords(words, i + 1)

StoryMark(story) ==
    IF heap[prev.formatter].cls = "MarkdownFormatter" THEN <<"*">> \o story \o <<"*">>
    ELSE <<"[">> \o story \o <<"]">>

Description(task) ==
    IF prev.include_story /\ task.story # <<>>
    THEN StoryMark(task.story) \o <<" ">> \o task.text
    ELSE task.text

\* The places, in the tasks of the week, of the tasks of the user on the day
\* that the stories were asked for.
AskedDay == date_add(period.start_date, res.input.day - 1)

TasksAskedFor ==
    {i \in 1 .. Len(period.tasks.items) :
        /\ period.tasks.items[i].user = res.input.user
        /\ period.tasks.items[i].date.year = AskedDay.year
        /\ period.tasks.items[i].date.month = AskedDay.month
        /\ period.tasks.items[i].date.day = AskedDay.day}

DescriptionsAskedFor == {Description(period.tasks.items[i]) : i \in TasksAskedFor}

C26_EachDescriptionOnce ==
    pc = "get_stories_for_day_and_user"
        => /\ res.returned.text = SpacedWords(Words(res.returned.text), 1)
           /\ \E order \in Orderings(DescriptionsAskedFor) :
                  Words(res.returned.text) = WordsOfAll(order, 1)

\* The stories were asked for a user and a day with two tasks of the same
\* description, with a story that is included.
C26_RepeatedDescription ==
    /\ pc = "get_stories_for_day_and_user"
    /\ prev.include_story
    /\ \E i, j \in TasksAskedFor :
          /\ i # j
          /\ period.tasks.items[i].story # <<>>
          /\ Description(period.tasks.items[i]) = Description(period.tasks.items[j])

(***************************************************************************)
(* C22: rendering is deterministic.  When the stories of a user and a day  *)
(* are asked for twice of the same report, the second time of a formatter  *)
(* without pieces, be it in the same run of the program or in the next,    *)
(* get_stories_for_day_and_user returns the same text both times.          *)
(***************************************************************************)
C22_SameStoriesTwice ==
    [][/\ pc = "get_stories_for_day_and_user"
       /\ pc' = "get_stories_for_day_and_user"
       /\ res'.input = res.input
       /\ heap'[res'.self].pieces = <<>>
       => res'.returned = res.returned]_vars

(***************************************************************************)
(* C23: the table of a TwikiFormatter.  A table of fewer than 10 rows, or  *)
(* with a header row, comes out one row per line.  A table of 10 rows or   *)
(* more without a header comes out in exactly 10 lines, line r holding the *)
(* cells of the rows r, r + 10, r + 20, ... from left to right, with two   *)
(* empty cells where the last group of 10 has no row.  Either way every    *)
(* row is in the output once and all lines have the same number of cells.  *)
(***************************************************************************)
\* The lines of the formatter: each row is a piece, followed by the piece "\n".
TableLines == [i \in 1 .. Len(heap[1].pieces) \div 2 |-> heap[1].pieces[2 * i - 1]]

LinesAreEnded ==
    /\ Len(heap[1].pieces) % 2 = 0
    /\ \A i \in 1 .. Len(heap[1].pieces) \div 2 : heap[1].pieces[2 * i] = <<"\n">>

\* The text of a cell of a line without the blanks and the "*" around it.
RECURSIVE Unmarked(_)
Unmarked(text) ==
    IF text = <<>> THEN text
    ELSE IF text[1] \in {" ", "*"} THEN Unmarked(Tail(text))
    ELSE IF text[Len(text)] \in {" ", "*"} THEN Unmarked(SubSeq(text, 1, Len(text) - 1))
    ELSE text

\* The cells of a line "| a | b |": the texts between the bars.
RECURSIVE CellsFrom(_, _, _)
CellsFrom(line, i, cell) ==
    IF i > Len(line) THEN <<>>
    ELSE IF line[i] = "|"
    THEN (IF i = 1 THEN <<>> ELSE <<Unmarked(cell)>>) \o CellsFrom(line, i + 1, <<>>)
    ELSE CellsFrom(line, i + 1, Append(cell, line[i]))

CellsOfLine(line) == CellsFrom(line, 1, <<>>)

\* The cells that line r of the layout side by side is to hold.
RECURSIVE SideBySide(_, _)
SideBySide(table, r) ==
    IF r > ((Len(table) + 9) \div 10) * 10 THEN <<>>
    ELSE (IF r > Len(table) THEN <<<<>>, <<>>>> ELSE table[r]) \o SideBySide(table, r + 10)

\* The layout: one row per line, or ten lines side by side.
TwikiTableIsLaidOut ==
    /\ res.raised = None
    /\ LinesAreEnded
    /\ IF Len(arg.table) < 10 \/ arg.has_headers
       THEN /\ Len(TableLines) = Len(arg.table)
            /\ \A r \in 1 .. Len(TableLines) :
                   CellsOfLine(TableLines[r]) = arg.table[r]
       ELSE /\ Len(TableLines) = 10
            /\ \A r \in 1 .. 10 :
                   CellsOfLine(TableLines[r]) = SideBySide(arg.table, r)

\* C23: the layout above, and every line has the same number of cells.
C23_TwikiTableLayout ==
    pc = "generate_table"
        => /\ TwikiTableIsLaidOut
           /\ \A q, r \in 1 .. Len(TableLines) :
                  Len(CellsOfLine(TableLines[q])) = Len(CellsOfLine(TableLines[r]))

\* The number of cells of the rows of a table whose rows are of one width, and
\* the number of rows in the last group of 10.
WidthOfRows == Len(arg.table[1])

RowsInLastGroup == IF Len(arg.table) % 10 = 0 THEN 10 ELSE Len(arg.table) % 10

GroupsOfTen == (Len(arg.table) + 9) \div 10

\* C23, as amended: the layout above, with two empty cells for a missing
\* position whatever the width of the rows.  For a table whose rows all have w
\* cells the lines have the same number of cells when the table comes out one
\* row per line, when the last group of 10 is full or when w = 2; for any other
\* w the lines after the last row of the last group have 2 - w cells more than
\* the lines before.
C23_TwikiTableFillerIsTwoCells ==
    pc = "generate_table"
        => /\ TwikiTableIsLaidOut
           /\ IF Len(arg.table) < 10 \/ arg.has_headers
              THEN \A r \in 1 .. Len(TableLines) :
                       Len(CellsOfLine(TableLines[r])) = WidthOfRows
              ELSE \A r \in 1 .. Len(TableLines) :
                       Len(CellsOfLine(TableLines[r]))
                           = IF r <= RowsInLastGroup THEN GroupsOfTen * WidthOfRows
                             ELSE (GroupsOfTen - 1) * WidthOfRows + 2

\* 11 rows of 3 cells without a header: line 1 holds the rows 1 and 11, the
\* other lines a row and the two empty cells.
C23_Witness ==
    /\ pc = "generate_table"
    /\ ~arg.has_headers
    /\ Len(arg.table) = 11
    /\ WidthOfRows = 3
    /\ Len(TableLines) = 10
    /\ CellsOfLine(TableLines[1]) = arg.table[1] \o arg.table[11]
    /\ CellsOfLine(TableLines[2]) = arg.table[2] \o <<<<>>, <<>>>>


====
